---- MODULE Spec2Model ----
(***************************************************************************)
(* PyWand: the dependency pipeline (scan, extract, normalise, manifest) of *)
(* src/src/main.rs and the tool provisioner of src/src/uv_tools.rs.        *)
(*                                                                         *)
(* The specifications share the variables:                                 *)
(*   Spec      the scan and the extraction of struct PyWand;               *)
(*   SpecProv  the UvManager (ensure_available, create_venv,               *)
(*             install_dependencies) against its environment;              *)
(*   SpecNorm  normalize_package_name on the names it may be given;        *)
(*   SpecGen   the analyze and gen-req commands of main, which scan,       *)
(*             extract, normalise and write the manifest;                  *)
(*   SpecBoot  the two caches of the tool: the bootstrap of PyWand::new    *)
(*             and ensure_available of the UvManager;                      *)
(*   SpecDeep  the scan on chains of directories around the depth limit;   *)
(*   SpecFlow  one run of a command that builds an environment (local-dev, *)
(*             the menu, run, pip), call by call;                          *)
(*   SpecConc  invocations that run extract_embedded_uv at the same time.  *)
(***************************************************************************)
EXTENDS Integers, Sequences, FiniteSets, TLC

VARIABLES
    \* ---- UvManager (uv_tools.rs:18-22) and what it touches
    bin_path,       \* UvManager.bin_path: NoPath or the path of the tool
    os_type,        \* target_os of the build: "windows", "macos" or "linux"
    arch,           \* target_arch of the build, as determine_os_arch names it
    resources,      \* keys of UV_RESOURCES, the embedded directory
    home,           \* whether dirs::home_dir() resolves
    cache,          \* app dir |-> what <app dir>/bin/<uv file name> holds:
                    \* "absent", "old" (left by an earlier run), "empty"
                    \* (created, not written), "blob", "installed"
    call,           \* the last UvManager call: its inputs, events and result
    \* ---- PyWand (main.rs:87-95) and the tree it scans
    tree,           \* the directory tree on disk, in walk order
    python_files,   \* PyWand.python_files
    dependencies,   \* PyWand.dependencies
    last,           \* the last PyWand operation and its argument
    \* ---- normalize_package_name (main.rs:569-598)
    mod_name,       \* the name it is given
    normalized,     \* what it returned: Some(name), None, or Pending
    \* ---- the manifest (main.rs:497-516) and the commands of main
    disk,           \* path of a requirements.txt |-> its content, or NoFile
    gen,            \* the last command of main: its arguments and result
    \* ---- the bootstrap of PyWand::new (main.rs:125-165)
    local_uv,       \* what .pywand/<uv file name> holds: "absent", "old"
                    \* (left by an earlier run) or "copied"
    internal_uv_path, \* PyWand.internal_uv_path: NoPath or that path
    boot,           \* the last ensure_uv_available call
    \* ---- what the commands of main find and leave in the directory
    venv,           \* whether .venv exists
    \* ---- invocations of the program that run at the same time
    pc,             \* invocation |-> the step of extract_embedded_uv it is at
    handle          \* invocation |-> the path it returned, or NoPath

provVars == <<bin_path, os_type, arch, resources, home, cache, call>>
scanVars == <<tree, python_files, dependencies, last>>
normVars == <<mod_name, normalized>>
genVars == <<disk, gen>>
bootVars == <<local_uv, internal_uv_path, boot>>
flowVars == <<venv>>
concVars == <<pc, handle>>
vars == <<bin_path, os_type, arch, resources, home, cache, call,
          tree, python_files, dependencies, last,
          mod_name, normalized, disk, gen, local_uv, internal_uv_path, boot,
          venv, pc, handle>>

(***************************************************************************)
(* Bounds of the model.                                                    *)
(***************************************************************************)
\* random ids get_app_dir may draw for the temporary directory
MaxRand == 1
\* exit codes the tool may return are 0..MaxExit
MaxExit == 2
\* invocations of the program running at the same time
MaxProcs == 2

(***************************************************************************)
(* Results: anyhow::Result<T>.  An error built by bail!/context carries a  *)
(* message and nothing else.                                               *)
(***************************************************************************)
NoPath == "<none>"
\* Option<String>
Some(v) == [is_some |-> TRUE, val |-> v]
None == [is_some |-> FALSE]
\* normalize_package_name has not been called
Pending == [called |-> FALSE]
\* no file at a path
NoFile == "<no file>"
Ok(v) == [ok |-> TRUE, val |-> v]
Err(m) == [ok |-> FALSE, msg |-> m]
Unit == "()"

(***************************************************************************)
(* Strings.                                                                *)
(***************************************************************************)
IsSpace(c) == c \in {" ", "\n", "\r", "\t"}

RECURSIVE TrimStart(_)
TrimStart(s) ==
    IF Len(s) > 0 /\ IsSpace(Head(s)) THEN TrimStart(Tail(s)) ELSE s

RECURSIVE TrimEnd(_)
TrimEnd(s) ==
    IF Len(s) > 0 /\ IsSpace(SubSeq(s, Len(s), Len(s)))
    THEN TrimEnd(SubSeq(s, 1, Len(s) - 1))
    ELSE s

\* str::trim
Trim(s) == TrimEnd(TrimStart(s))

\* PathBuf::join
Join(p, c) == p \o "/" \o c

\* str::trim_end_matches(c)
RECURSIVE trim_end_matches(_, _)
trim_end_matches(s, c) ==
    IF Len(s) > 0 /\ SubSeq(s, Len(s), Len(s)) = c
    THEN trim_end_matches(SubSeq(s, 1, Len(s) - 1), c)
    ELSE s

\* str::starts_with(c)
starts_with(s, c) == Len(s) > 0 /\ SubSeq(s, 1, 1) = c

(***************************************************************************)
(* The manifest on disk, and the parts of the state a specification that   *)
(* does not use them leaves as PyWand::new finds them.                     *)
(***************************************************************************)
\* the directories a manifest is written to
Targets == {".", "out/"}

\* format!("{}/requirements.txt", target_dir.trim_end_matches('/'))
requirements_path(target_dir) ==
    trim_end_matches(target_dir, "/") \o "/requirements.txt"

ManifestPaths == { requirements_path(d) : d \in Targets }

NoCommand == [op |-> "none"]
NoBoot == [op |-> "new"]

NormIdle == mod_name = "" /\ normalized = Pending
GenIdle == disk = [p \in ManifestPaths |-> NoFile] /\ gen = NoCommand
BootIdle == local_uv = "absent" /\ internal_uv_path = NoPath /\ boot = NoBoot
FlowIdle == venv = FALSE

\* the invocations, none of which has started
Procs == 1..MaxProcs
ConcIdle == pc = [p \in Procs |-> "idle"] /\ handle = [p \in Procs |-> NoPath]

(***************************************************************************)
(* Platform facts.                                                         *)
(***************************************************************************)
\* the uv file name chosen by cfg!(target_os = "windows")
uv_file_name == IF os_type = "windows" THEN "uv.exe" ELSE "uv"

\* format!("{}-{}/{}", os_type, arch, uv_file_name)
resource_path == os_type \o "-" \o arch \o "/" \o uv_file_name

\* the builds of the model: platform and embedded table.  The table holds a
\* blob for the platform in the first and the third
Builds ==
    { <<"linux", "x64", {"linux-x64/uv", "windows-x64/uv.exe"}>>,
      <<"linux", "arm64", {"linux-x64/uv", "windows-x64/uv.exe"}>>,
      <<"windows", "x64", {"linux-x64/uv", "windows-x64/uv.exe"}>>,
      <<"windows", "x64", {}>>,
      <<"linux", "x64", {}>> }

RandIds == 1..MaxRand
IdText == <<"1", "2", "3", "4">>
HomeAppDir == "~/.pywand"
TempAppDir(id) == "/tmp/pywand-" \o IdText[id]
AppDirs == {HomeAppDir} \cup {TempAppDir(id) : id \in RandIds}

(***************************************************************************)
(* The environment of one UvManager call: what the operating system, the   *)
(* file system and the network answer.  A call stops at its first failing  *)
(* step (the ? operator), so one failing step per call covers every run.   *)
(***************************************************************************)
\* the outputs `which uv` / `where uv.exe` may print on success
Stdouts == {"/usr/bin/uv\n", " /opt/uv \r\n"}

\* Command::output() of which/where: not started, exit code, stdout
WhichOutcomes ==
    { [spawn |-> FALSE, exit |-> 0, utf8 |-> TRUE, stdout |-> ""],
      [spawn |-> TRUE, exit |-> 1, utf8 |-> TRUE, stdout |-> ""],
      [spawn |-> TRUE, exit |-> 0, utf8 |-> FALSE, stdout |-> ""] }
    \cup { [spawn |-> TRUE, exit |-> 0, utf8 |-> TRUE, stdout |-> o]
            : o \in Stdouts }

\* the steps of extract_embedded_uv that can return an error
ExtractFails == {"none", "appdir", "bindir", "create_bin", "write_bin"}
                  \cup (IF os_type = "windows" THEN {} ELSE {"chmod_bin"})

\* the steps of download_uv that can return an error
DownloadFails ==
    {"none", "appdir", "bindir", "http_get", "create_script", "save_script",
     "run_installer"}
    \cup (IF os_type = "windows" THEN {} ELSE {"chmod_script"})

\* what the installer script does when it runs: its exit code, and whether
\* it leaves the binary at <app dir>/bin/<uv file name>
InstallerOutcomes == [exit : {0, 1}, installs : BOOLEAN]
NoInstaller == [exit |-> 0, installs |-> TRUE]

HasBlob == resource_path \in resources

\* the environments of a call that differ in a step the call can reach: the
\* steps after a successful lookup, and the installer after a failed step,
\* never run
Envs ==
    { [which |-> w, rand |-> 1, fail |-> "none", installer |-> NoInstaller] :
        w \in {x \in WhichOutcomes : x.spawn /\ x.exit = 0 /\ x.utf8} }
    \cup
    { [which |-> w, rand |-> r, fail |-> f, installer |-> NoInstaller] :
        w \in {x \in WhichOutcomes : ~(x.spawn /\ x.exit = 0 /\ x.utf8)},
        r \in (IF home THEN {1} ELSE RandIds),
        f \in (IF HasBlob THEN ExtractFails ELSE DownloadFails \ {"none"}) }
    \cup
    { [which |-> w, rand |-> r, fail |-> "none", installer |-> i] :
        w \in {x \in WhichOutcomes : ~(x.spawn /\ x.exit = 0 /\ x.utf8)},
        r \in (IF home THEN {1} ELSE RandIds),
        i \in (IF HasBlob THEN {} ELSE InstallerOutcomes) }

\* what a call did: its result, the steps it took in order, and the cache
\* it leaves
Outcome(r, ev, c) == [result |-> r, events |-> ev, cache |-> c]

(***************************************************************************)
(* uv_tools.rs                                                             *)
(***************************************************************************)
\* find_system_uv: Ok only when which/where ran, exited 0 and printed UTF-8
find_system_uv(w) ==
    IF w.spawn /\ w.exit = 0 /\ w.utf8
    THEN Ok(Trim(w.stdout))
    ELSE Err("uv not found on the system")

\* get_app_dir: <home>/.pywand, or a temporary directory with a random id
get_app_dir(e) == IF home THEN HomeAppDir ELSE TempAppDir(e.rand)

\* download_uv returning the cache path without testing that it exists
download_uv_unchecked(e) ==
    LET dir == get_app_dir(e)
        uv_path == Join(Join(dir, "bin"), uv_file_name)
        unix == os_type # "windows"
        s3 == <<"download_uv", "mkdir_app", "mkdir_bin", "http_get">>
        s5 == s3 \o <<"create_script", "save_script">>
        s6 == IF unix THEN s5 \o <<"chmod_script">> ELSE s5
        s7 == s6 \o <<"run_installer">>
        after == IF e.installer.installs
                 THEN [cache EXCEPT ![dir] = "installed"]
                 ELSE cache
    IN
    IF e.fail = "appdir"
    THEN Outcome(Err("cannot create the application data directory"),
                 SubSeq(s3, 1, 2), cache)
    ELSE IF e.fail = "bindir"
    THEN Outcome(Err("cannot create the application directory"),
                 SubSeq(s3, 1, 3), cache)
    ELSE IF e.fail = "http_get"
    THEN Outcome(Err("cannot download the uv installer"), s3, cache)
    ELSE IF e.fail = "create_script"
    THEN Outcome(Err("cannot create the installer script file"),
                 SubSeq(s5, 1, 5), cache)
    ELSE IF e.fail = "save_script"
    THEN Outcome(Err("cannot save the installer script"), s5, cache)
    ELSE IF unix /\ e.fail = "chmod_script"
    THEN Outcome(Err("cannot make the installer script executable"), s6, cache)
    ELSE IF e.fail = "run_installer"
    THEN Outcome(Err("cannot run the uv installer script"), s7, cache)
    ELSE Outcome(Ok(uv_path), s7 \o <<"exists_check">>, after)

\* download_uv: fetch the installer script, run it, check the binary exists
download_uv(e) ==
    LET dir == get_app_dir(e)
        uv_path == Join(Join(dir, "bin"), uv_file_name)
        unix == os_type # "windows"
        s1 == <<"download_uv", "mkdir_app">>
        s2 == s1 \o <<"mkdir_bin">>
        s3 == s2 \o <<"http_get">>
        s4 == s3 \o <<"create_script">>
        s5 == s4 \o <<"save_script">>
        s6 == IF unix THEN s5 \o <<"chmod_script">> ELSE s5
        s7 == s6 \o <<"run_installer">>
        s8 == s7 \o <<"exists_check">>
        after == IF e.installer.installs
                 THEN [cache EXCEPT ![dir] = "installed"]
                 ELSE cache
    IN
    IF e.fail = "appdir"
    THEN Outcome(Err("cannot create the application data directory"), s1, cache)
    ELSE IF e.fail = "bindir"
    THEN Outcome(Err("cannot create the application directory"), s2, cache)
    ELSE IF e.fail = "http_get"
    THEN Outcome(Err("cannot download the uv installer"), s3, cache)
    ELSE IF e.fail = "create_script"
    THEN Outcome(Err("cannot create the installer script file"), s4, cache)
    ELSE IF e.fail = "save_script"
    THEN Outcome(Err("cannot save the installer script"), s5, cache)
    ELSE IF unix /\ e.fail = "chmod_script"
    THEN Outcome(Err("cannot make the installer script executable"), s6, cache)
    ELSE IF e.fail = "run_installer"
    THEN Outcome(Err("cannot run the uv installer script"), s7, cache)
    ELSE IF after[dir] = "absent"
    THEN Outcome(Err("uv install failed, binary not found"), s8, after)
    ELSE Outcome(Ok(uv_path), s8, after)

\* extract_embedded_uv with the blob lookup lost: always the network
extract_embedded_uv_ignores_blob(e) ==
    LET d == download_uv(e) IN
    Outcome(d.result, <<"get_file">> \o d.events, d.cache)

\* extract_embedded_uv falling back to the network when writing the blob
\* fails, instead of returning the error
extract_embedded_uv_falls_back(e) ==
    LET dir == get_app_dir(e)
        uv_path == Join(Join(dir, "bin"), uv_file_name)
        s0 == <<"get_file">>
        s4 == s0 \o <<"mkdir_app", "mkdir_bin", "create_bin", "write_bin">>
        s5 == IF os_type # "windows" THEN s4 \o <<"chmod_bin">> ELSE s4
        d == download_uv([e EXCEPT !.fail = "none"])
    IN
    IF resource_path \notin resources
    THEN Outcome(download_uv(e).result, s0 \o download_uv(e).events,
                 download_uv(e).cache)
    ELSE IF e.fail # "none"
    THEN Outcome(d.result, s4 \o d.events, d.cache)
    ELSE Outcome(Ok(uv_path), s5, [cache EXCEPT ![dir] = "blob"])

\* extract_embedded_uv: write the embedded blob to <app dir>/bin, or go to
\* the network when UV_RESOURCES holds no blob for this platform
extract_embedded_uv(e) ==
    LET dir == get_app_dir(e)
        uv_path == Join(Join(dir, "bin"), uv_file_name)
        unix == os_type # "windows"
        s0 == <<"get_file">>
        s1 == s0 \o <<"mkdir_app">>
        s2 == s1 \o <<"mkdir_bin">>
        s3 == s2 \o <<"create_bin">>
        s4 == s3 \o <<"write_bin">>
        s5 == IF unix THEN s4 \o <<"chmod_bin">> ELSE s4
        d == download_uv(e)
    IN
    IF resource_path \notin resources
    THEN Outcome(d.result, s0 \o d.events, d.cache)
    ELSE IF e.fail = "appdir"
    THEN Outcome(Err("cannot create the application data directory"), s1, cache)
    ELSE IF e.fail = "bindir"
    THEN Outcome(Err("cannot create the application directory"), s2, cache)
    ELSE IF e.fail = "create_bin"
    THEN Outcome(Err("cannot create the uv executable"), s3, cache)
    ELSE IF e.fail = "write_bin"
    THEN Outcome(Err("cannot write the uv binary data"), s4,
                 [cache EXCEPT ![dir] = "empty"])
    ELSE IF unix /\ e.fail = "chmod_bin"
    THEN Outcome(Err("cannot set the uv executable permission"), s5,
                 [cache EXCEPT ![dir] = "blob"])
    ELSE Outcome(Ok(uv_path), s5, [cache EXCEPT ![dir] = "blob"])

\* ensure_available with the system lookup's answer dropped
ensure_available_skips_system(e) ==
    LET x == extract_embedded_uv(e) IN
    [result |-> x.result, events |-> <<"lookup">> \o x.events,
     cache |-> x.cache,
     bin_path |-> IF x.result.ok THEN x.result.val ELSE bin_path]

\* ensure_available returning the error of a which/where that cannot start
ensure_available_lookup_must_start(e) ==
    IF ~e.which.spawn
    THEN [result |-> Err("cannot run the lookup"), events |-> <<"lookup">>,
          cache |-> cache, bin_path |-> bin_path]
    ELSE IF find_system_uv(e.which).ok
    THEN [result |-> Ok(find_system_uv(e.which).val), events |-> <<"lookup">>,
          cache |-> cache, bin_path |-> find_system_uv(e.which).val]
    ELSE ensure_available_skips_system(e)

\* ensure_available forgetting the handle when it fails
ensure_available_clears_handle(e) ==
    LET sys == find_system_uv(e.which)
        x == extract_embedded_uv(e)
    IN
    IF sys.ok
    THEN [result |-> Ok(sys.val), events |-> <<"lookup">>, cache |-> cache,
          bin_path |-> sys.val]
    ELSE [result |-> x.result, events |-> <<"lookup">> \o x.events,
          cache |-> x.cache,
          bin_path |-> IF x.result.ok THEN x.result.val ELSE NoPath]

\* ensure_available: the system's uv, else the embedded one
ensure_available(e) ==
    LET sys == find_system_uv(e.which)
        x == extract_embedded_uv(e)
    IN
    IF sys.ok
    THEN [result |-> Ok(sys.val), events |-> <<"lookup">>, cache |-> cache,
          bin_path |-> sys.val]
    ELSE [result |-> x.result, events |-> <<"lookup">> \o x.events,
          cache |-> x.cache,
          bin_path |-> IF x.result.ok THEN x.result.val ELSE bin_path]

\* what running the tool answers: whether it started, and its exit code
ToolOutcomes ==
    { [spawn |-> FALSE, exit |-> 0] }
    \cup { [spawn |-> TRUE, exit |-> x] : x \in 0..MaxExit }

\* run_command: spawn <bin_path> with args; Ok only on exit status 0
run_command(args, t) ==
    IF bin_path = NoPath
    THEN [result |-> Err("uv is not initialised"), events |-> <<>>]
    ELSE IF ~t.spawn
    THEN [result |-> Err("cannot execute the uv command"),
          events |-> <<<<bin_path, args>>>>]
    ELSE IF t.exit # 0
    THEN [result |-> Err("uv command failed"),
          events |-> <<<<bin_path, args>>>>]
    ELSE [result |-> Ok(Unit), events |-> <<<<bin_path, args>>>>]

\* create_venv: uv venv <dir> --python=<version>
create_venv(venv_dir, python_version, t) ==
    run_command(<<"venv", venv_dir, "--python=" \o python_version>>, t)

\* the interpreter of the environment, by cfg!(target_os = "windows")
python_path(venv_dir) ==
    IF os_type = "windows"
    THEN venv_dir \o "\\Scripts\\python.exe"
    ELSE venv_dir \o "/bin/python"

\* install_dependencies without the check that the requirements file exists
install_dependencies_unchecked(requirements_file, exists, venv_dir, t) ==
    run_command(<<"pip", "install", "-r", requirements_file,
                  "--python", python_path(venv_dir)>>, t)

\* install_dependencies: a no-op success without the requirements file
install_dependencies(requirements_file, exists, venv_dir, t) ==
    IF ~exists
    THEN [result |-> Ok(Unit), events |-> <<>>]
    ELSE run_command(<<"pip", "install", "-r", requirements_file,
                       "--python", python_path(venv_dir)>>, t)

(***************************************************************************)
(* SpecProv: one UvManager and the calls its owner makes on it.            *)
(***************************************************************************)
\* runtime versions offered by get_supported_python_versions
Versions == {"3.8.10", "3.12.1"}

NoCall == [op |-> "new", env |-> <<>>, events |-> <<>>, result |-> Ok(Unit)]

\* UvManager::new, on a machine whose home cache may hold an earlier binary
InitProv ==
    /\ bin_path = NoPath
    /\ \E b \in Builds :
          /\ os_type = b[1]
          /\ arch = b[2]
          /\ resources = b[3]
    /\ home \in BOOLEAN
    /\ cache \in { [d \in AppDirs |-> IF d = HomeAppDir THEN b ELSE "absent"]
                    : b \in {"absent", "old"} }
    /\ call = NoCall
    /\ tree = <<>>
    /\ python_files = <<>>
    /\ dependencies = <<>>
    /\ last = [op |-> "new"]
    /\ NormIdle
    /\ GenIdle
    /\ FlowIdle
    /\ ConcIdle
    /\ BootIdle

EnsureAvailable ==
    \E e \in Envs :
        LET r == ensure_available(e) IN
        /\ bin_path' = r.bin_path
        /\ cache' = r.cache
        /\ call' = [op |-> "ensure_available", env |-> e,
                    events |-> r.events, result |-> r.result]
        /\ UNCHANGED <<os_type, arch, resources, home>>
        /\ UNCHANGED scanVars
        /\ UNCHANGED <<normVars, genVars, bootVars>>
        /\ UNCHANGED <<flowVars, concVars>>

CreateVenv ==
    \E t \in ToolOutcomes, v \in Versions :
        LET r == create_venv(".venv", v, t) IN
        /\ call' = [op |-> "create_venv", env |-> [tool |-> t, exists |-> TRUE],
                    events |-> r.events, result |-> r.result]
        /\ UNCHANGED <<bin_path, os_type, arch, resources, home, cache>>
        /\ UNCHANGED scanVars
        /\ UNCHANGED <<normVars, genVars, bootVars>>
        /\ UNCHANGED <<flowVars, concVars>>

InstallDependencies ==
    \E t \in ToolOutcomes, exists \in BOOLEAN :
        LET r == install_dependencies("requirements.txt", exists, ".venv", t) IN
        /\ call' = [op |-> "install_dependencies",
                    env |-> [tool |-> t, exists |-> exists],
                    events |-> r.events, result |-> r.result]
        /\ UNCHANGED <<bin_path, os_type, arch, resources, home, cache>>
        /\ UNCHANGED scanVars
        /\ UNCHANGED <<normVars, genVars, bootVars>>
        /\ UNCHANGED <<flowVars, concVars>>

NextProv == EnsureAvailable \/ CreateVenv \/ InstallDependencies

SpecProv == InitProv /\ [][NextProv]_vars

(***************************************************************************)
(* Properties of the provisioner, checked under SpecProv.                  *)
(***************************************************************************)
\* the system lookup succeeded: which/where ran, exited 0, printed UTF-8
LookupOk(w) == w.spawn /\ w.exit = 0 /\ w.utf8

\* i is the place of step s in the call's events, 0 when it was not taken
Place(s) ==
    IF \E i \in 1..Len(call.events) : call.events[i] = s
    THEN CHOOSE i \in 1..Len(call.events) : call.events[i] = s
    ELSE 0

Took(s) == Place(s) > 0

NetworkSteps ==
    {"download_uv", "http_get", "create_script", "save_script",
     "chmod_script", "run_installer", "exists_check"}

UsedNetwork == \E s \in NetworkSteps : Took(s)

\* the path of the cached binary of the last ensure_available call
CachePath == Join(Join(get_app_dir(call.env), "bin"), uv_file_name)

\* the last call was ensure_available, its lookup failed, a blob is embedded
EmbeddedCase ==
    /\ call.op = "ensure_available"
    /\ ~LookupOk(call.env.which)
    /\ HasBlob

\* C1 as stated: with the system lookup failing and an embedded blob for
\* <os>-<arch>/<binary name>, ensure_available returns the cache path written
\* from the blob, and neither downloads nor runs an installer.
C1_EmbeddedReturnsCachePath ==
    EmbeddedCase =>
        /\ call.result = Ok(CachePath)
        /\ cache[get_app_dir(call.env)] = "blob"
        /\ ~UsedNetwork

\* C1 amended: in that case no network step is ever taken; the call returns
\* the cache path, written from the blob and recorded as the handle, exactly
\* when no step of the extraction fails, and returns that step's error
\* otherwise.
C1_EmbeddedNeverUsesNetwork ==
    EmbeddedCase =>
        /\ ~UsedNetwork
        /\ call.result.ok <=> call.env.fail = "none"
        /\ call.result.ok =>
              /\ call.result.val = CachePath
              /\ bin_path = CachePath
              /\ cache[get_app_dir(call.env)] = "blob"
              /\ Took("write_bin")

C1_Witness ==
    /\ EmbeddedCase
    /\ call.result = Ok(CachePath)
    /\ cache[get_app_dir(call.env)] = "blob"

\* C2: when the system lookup succeeds, ensure_available returns the
\* looked-up path (the trimmed output of which/where), records it as the
\* handle, and takes no other step: the cache is not written and the network
\* is not used.
C2_SystemLookupShortCircuits ==
    [][ (call'.op = "ensure_available" /\ LookupOk(call'.env.which)) =>
            /\ call'.result = Ok(Trim(call'.env.which.stdout))
            /\ bin_path' = Trim(call'.env.which.stdout)
            /\ call'.events = <<"lookup">>
            /\ cache' = cache ]_vars

C2_Witness ==
    /\ call.op = "ensure_available"
    /\ LookupOk(call.env.which)
    /\ call.env.which.stdout = " /opt/uv \r\n"
    /\ bin_path = "/opt/uv"
    /\ HasBlob

\* the embedded extraction was attempted and failed: no blob, or an error
\* while creating or writing the cache file
ExtractionFailed ==
    \/ ~HasBlob
    \/ call.env.fail # "none"

\* C3 as stated: the strategies run in the order lookup, extraction, network,
\* each whenever all earlier ones failed (so a failed write of a present blob
\* leads to the network install), and the call fails only when all three
\* have failed.
C3_EachStrategyAfterEarlierFailed ==
    call.op = "ensure_available" =>
        /\ Place("lookup") = 1
        /\ Took("get_file") <=> ~LookupOk(call.env.which)
        /\ Took("download_uv") <=>
              (~LookupOk(call.env.which) /\ ExtractionFailed)
        /\ Took("download_uv") => Place("get_file") < Place("download_uv")
        /\ ~call.result.ok => Took("download_uv")

\* C3 amended: the strategies run in the order lookup, extraction, network;
\* the extraction is attempted whenever the lookup failed, and the network
\* install exactly when the lookup failed and no blob is embedded for the
\* platform.  With a blob embedded, an error while creating or writing the
\* cache file fails the call without a network attempt; so the call fails
\* when the lookup failed and the one strategy tried after it failed.
C3_NetworkOnlyWithoutBlob ==
    call.op = "ensure_available" =>
        /\ Place("lookup") = 1
        /\ Took("get_file") <=> ~LookupOk(call.env.which)
        /\ Took("get_file") => Place("get_file") = 2
        /\ Took("download_uv") <=> (~LookupOk(call.env.which) /\ ~HasBlob)
        /\ Took("download_uv") => Place("download_uv") = 3
        /\ (EmbeddedCase /\ call.env.fail # "none") =>
              (~call.result.ok /\ ~UsedNetwork)
        /\ ~call.result.ok =>
              /\ ~LookupOk(call.env.which)
              /\ \/ HasBlob /\ call.env.fail # "none"
                 \/ ~HasBlob /\ Took("download_uv")

C3_Witness ==
    /\ EmbeddedCase
    /\ call.env.fail = "write_bin"
    /\ ~call.result.ok
    /\ Took("write_bin")
    /\ ~Took("download_uv")

\* C4: install_dependencies on a manifest path that does not exist returns
\* success and spawns no process, whether or not the handle is set.
C4_MissingManifestIsNoOp ==
    (call.op = "install_dependencies" /\ ~call.env.exists) =>
        /\ call.result = Ok(Unit)
        /\ call.events = <<>>

C4_Witness ==
    /\ call.op = "install_dependencies"
    /\ ~call.env.exists
    /\ bin_path = NoPath
    /\ call.result.ok

\* the exit codes an error carries: none, for an error that is a message
ErrCodes(r) == IF "code" \in DOMAIN r THEN {r.code} ELSE {}

\* the last call ran the tool: create_venv, or install_dependencies with the
\* manifest present, on a set handle, and the tool started
RanTool ==
    /\ call.op \in {"create_venv", "install_dependencies"}
    /\ call.env.exists
    /\ bin_path # NoPath
    /\ call.env.tool.spawn

\* C5: create_venv, and install_dependencies with the manifest present,
\* invoke the tool once; a non-zero exit gives an error carrying that exit
\* code, and exit 0 gives success.
C5_ErrorCarriesExitCode ==
    RanTool =>
        /\ Len(call.events) = 1
        /\ call.env.tool.exit = 0 => call.result = Ok(Unit)
        /\ call.env.tool.exit # 0 =>
              /\ ~call.result.ok
              /\ ErrCodes(call.result) = {call.env.tool.exit}

\* how often step s was taken in the last call
Times(s) == Cardinality({ i \in 1..Len(call.events) : call.events[i] = s })

\* the last call was ensure_available and ran the installer script to its
\* end
InstallerRan ==
    /\ call.op = "ensure_available"
    /\ Took("run_installer")
    /\ call.env.fail # "run_installer"

\* C17: the network install is entered only when no embedded blob matches
\* the platform; once the installer has run, the call returns the cache
\* path if the binary exists at <app dir>/bin/<uv file name> and fails with
\* the acquisition error if it does not.
C17_InstallCheckedAtCachePath ==
    /\ (call.op = "ensure_available" /\ Took("download_uv")) => ~HasBlob
    /\ InstallerRan =>
          /\ Took("exists_check")
          /\ call.result.ok <=> cache[get_app_dir(call.env)] # "absent"
          /\ call.result.ok =>
                (call.result.val = CachePath /\ bin_path = CachePath)
          /\ ~call.result.ok =>
                call.result = Err("uv install failed, binary not found")

C17_Witness ==
    /\ InstallerRan
    /\ ~call.env.installer.installs
    /\ cache[get_app_dir(call.env)] = "absent"
    /\ ~call.result.ok

\* C18: per ensure_available call the download and the installer run at
\* most once; a failed download, and a non-zero exit of the installer, make
\* the call fail.
C18_InstallerFailureFailsCall ==
    call.op = "ensure_available" =>
        /\ Times("http_get") <= 1
        /\ Times("run_installer") <= 1
        /\ (Took("http_get") /\ call.env.fail = "http_get")
              => ~call.result.ok
        /\ (InstallerRan /\ call.env.installer.exit # 0)
              => ~call.result.ok

\* which/where ran and did not find the tool
NotFound == [spawn |-> TRUE, exit |-> 1, utf8 |-> TRUE, stdout |-> ""]

\* C20: when which/where cannot be started the call does not fail there:
\* it goes on to the embedded extraction and ends, in result, steps, cache
\* and handle, as the same call does when which/where runs and exits
\* non-zero.
C20_LookupNotStartedIsNotFound ==
    [][ (call'.op = "ensure_available" /\ ~call'.env.which.spawn) =>
            LET r == ensure_available([call'.env EXCEPT !.which = NotFound])
            IN /\ Len(call'.events) >= 2
               /\ call'.events[2] = "get_file"
               /\ call'.result = r.result
               /\ call'.events = r.events
               /\ cache' = r.cache
               /\ bin_path' = r.bin_path ]_vars

C20_Witness ==
    /\ call.op = "ensure_available"
    /\ ~call.env.which.spawn
    /\ Took("write_bin")
    /\ call.result = Ok(CachePath)

\* C28: the handle changes only on a successful ensure_available, to the
\* path returned; a failed ensure_available leaves it as it was, and
\* create_venv and install_dependencies (and the run_command they call)
\* never change it.
C28_HandleSetOnlyBySuccess ==
    [][ /\ (call'.op = "ensure_available" /\ call'.result.ok)
              => bin_path' = call'.result.val
        /\ (call'.op = "ensure_available" /\ ~call'.result.ok)
              => bin_path' = bin_path
        /\ call'.op \in {"create_venv", "install_dependencies"}
              => bin_path' = bin_path ]_vars

C28_Witness ==
    /\ call.op = "ensure_available"
    /\ ~call.result.ok
    /\ bin_path = "/opt/uv"

(***************************************************************************)
(* main.rs: the bootstrap of PyWand::new, which copies the tool from the   *)
(* resources directory into .pywand of the current directory.              *)
(***************************************************************************)
\* the environment of one ensure_uv_available call: whether the file
\* resources/uv/<os>-<arch>/<uv file name> exists, and the step that fails.
\* A failing fs::copy leaves no file ("copy") or a cut-short one ("copy_cut")
BootEnvs ==
    [resource : BOOLEAN,
     fail : {"none", "mkdir", "copy", "copy_cut"}
            \cup (IF os_type = "windows" THEN {} ELSE {"chmod"})]

\* .pywand/<uv file name>
local_uv_path == Join(".pywand", uv_file_name)

\* ensure_uv_available: copy the tool unless .pywand already holds it, then
\* record its path
ensure_uv_available(e) ==
    LET s0 == <<"mkdir", "exists_check">>
        s1 == s0 \o <<"resource_check">>
        s2 == s1 \o <<"copy">>
        s3 == IF os_type # "windows" THEN s2 \o <<"chmod">> ELSE s2
        keep(r, ev, u) == [result |-> r, events |-> ev, local_uv |-> u,
                           internal_uv_path |-> internal_uv_path]
    IN
    IF e.fail = "mkdir"
    THEN keep(Err("cannot create the .pywand directory"), <<"mkdir">>,
              local_uv)
    ELSE IF local_uv # "absent"
    THEN [result |-> Ok(Unit), events |-> s0, local_uv |-> local_uv,
          internal_uv_path |-> local_uv_path]
    ELSE IF ~e.resource
    THEN keep(Err("no uv tool for this platform"), s1, local_uv)
    ELSE IF e.fail = "copy"
    THEN keep(Err("cannot copy uv"), s2, "absent")
    ELSE IF e.fail = "copy_cut"
    THEN keep(Err("cannot copy uv"), s2, "cut")
    ELSE IF e.fail = "chmod"
    THEN keep(Err("cannot set the permission of the uv tool"), s3, "copied")
    ELSE [result |-> Ok(Unit), events |-> s3, local_uv |-> "copied",
          internal_uv_path |-> local_uv_path]

(***************************************************************************)
(* SpecBoot: the two caches of the tool across the runs of the program on  *)
(* one machine.  Each run starts with the bootstrap of PyWand::new; a run  *)
(* that needs the tool calls ensure_available on its UvManager.  The      *)
(* builds are those that embed the tool for their platform, on a machine   *)
(* with a home directory.                                                  *)
(***************************************************************************)
InitBoot ==
    /\ bin_path = NoPath
    /\ \E b \in Builds :
          /\ os_type = b[1]
          /\ arch = b[2]
          /\ resources = b[3]
    /\ HasBlob
    /\ home = TRUE
    /\ cache \in { [d \in AppDirs |-> IF d = HomeAppDir THEN b ELSE "absent"]
                    : b \in {"absent", "old"} }
    /\ call = NoCall
    /\ local_uv \in {"absent", "old"}
    /\ internal_uv_path = NoPath
    /\ boot = NoBoot
    /\ tree = <<>>
    /\ python_files = <<>>
    /\ dependencies = <<>>
    /\ last = [op |-> "new"]
    /\ NormIdle
    /\ GenIdle
    /\ FlowIdle
    /\ ConcIdle

\* PyWand::new in a new run: fresh fields, then ensure_uv_available, whose
\* error is printed and dropped
EnsureUvAvailable ==
    \E e \in BootEnvs :
        LET r == ensure_uv_available(e) IN
        /\ local_uv' = r.local_uv
        /\ internal_uv_path' = r.internal_uv_path
        /\ boot' = [op |-> "ensure_uv_available", env |-> e,
                    events |-> r.events, result |-> r.result]
        /\ UNCHANGED <<provVars, scanVars, normVars, genVars>>
        /\ UNCHANGED <<flowVars, concVars>>

NextBoot == EnsureUvAvailable \/ EnsureAvailable

SpecBoot == InitBoot /\ [][NextBoot]_vars

(***************************************************************************)
(* Properties of the two caches, checked under SpecBoot.                   *)
(***************************************************************************)
\* C16: a binary that already exists at the cache path is not written
\* again: the bootstrap leaves .pywand/<uv file name> as it found it, and
\* the embedded extraction of ensure_available leaves
\* <app dir>/bin/<uv file name> as it found it.
C16_ExistingBinaryIsNotRewritten ==
    [][ /\ (boot'.op = "ensure_uv_available" /\ local_uv # "absent")
            => local_uv' = local_uv
        /\ ( /\ call'.op = "ensure_available"
             /\ ~LookupOk(call'.env.which)
             /\ HasBlob
             /\ cache[get_app_dir(call'.env)] # "absent" )
            => cache'[get_app_dir(call'.env)] = cache[get_app_dir(call'.env)]
      ]_vars

(***************************************************************************)
(* The directory tree find_python_files walks.  The tree is the list of    *)
(* the entries below the scanned directory in the order WalkDir meets      *)
(* them: a directory, then its content (contents_first is off), each entry *)
(* with its depth below the root, its name, its type and, for a file, what *)
(* fs::read_to_string answers.                                             *)
(***************************************************************************)
\* entries below the root in a tree
MaxEntries == 3

\* WalkDir::max_depth(10)
MAX_DEPTH == 10

\* read_to_string fails: permission, or text that is not UTF-8
Unreadable == "<unreadable>"

\* the entries a tree is built from
Shapes ==
    { [name |-> "src", kind |-> "dir", content |-> Unreadable],
      [name |-> "build", kind |-> "dir", content |-> Unreadable],
      [name |-> "pkg.py", kind |-> "dir", content |-> Unreadable],
      [name |-> "a.py", kind |-> "file", content |-> "import requests\n"],
      [name |-> "b.py", kind |-> "file",
       content |-> "import requests\nimport numpy\n"],
      [name |-> "c.py", kind |-> "file", content |-> "import os\nimport sys\n"],
      [name |-> "d.py", kind |-> "file",
       content |-> "from yaml import x\n  import os.path\nimport\nnumpy\n# import no\nimportant b\n"],
      [name |-> "notes.txt", kind |-> "file", content |-> "import flask\n"],
      [name |-> "u.py", kind |-> "file", content |-> Unreadable] }

\* the depth of the last entry of t, 0 for the root alone
LastDepth(t) == IF t = <<>> THEN 0 ELSE t[Len(t)].depth

\* the parent of the entry at place i: 0 is the root
ParentOf(t, i) ==
    IF t[i].depth = 1 THEN 0
    ELSE CHOOSE j \in 1..(i - 1) :
            /\ t[j].depth = t[i].depth - 1
            /\ \A k \in (j + 1)..(i - 1) : t[k].depth >= t[i].depth

\* entry e may follow t: it hangs below a directory of t, and no entry of
\* that directory has its name
MayFollow(t, e) ==
    /\ e.depth >= 1
    /\ e.depth <= LastDepth(t) + 1
    /\ e.depth = LastDepth(t) + 1 => (t # <<>> => t[Len(t)].kind = "dir")
    /\ LET u == Append(t, e) IN
       \A j \in 1..Len(t) :
          (t[j].depth = e.depth /\ ParentOf(u, j) = ParentOf(u, Len(u)))
              => t[j].name # e.name

\* the entry of shape sh at depth d
Entry(sh, d) ==
    [depth |-> d, name |-> sh.name, kind |-> sh.kind, content |-> sh.content]

RECURSIVE TreesOfSize(_)
TreesOfSize(n) ==
    IF n = 0 THEN { <<>> }
    ELSE UNION { { Append(t, Entry(x[1], x[2])) :
                     x \in { y \in Shapes \X (1..(LastDepth(t) + 1)) :
                               MayFollow(t, Entry(y[1], y[2])) } } :
                 t \in TreesOfSize(n - 1) }

Trees == UNION { TreesOfSize(n) : n \in 0..MaxEntries }

(***************************************************************************)
(* main.rs: find_python_files                                              *)
(***************************************************************************)
\* the directory names filter_entry prunes
excluded_dirs ==
    {".git", ".venv", "venv", "env", "__pycache__", "node_modules",
     ".idea", ".vscode", "dist", "build", "target", ".pytest_cache"}

\* the names the scanned directory is given by: the current directory is
\* named build, so both name the same directory
Roots == {".", "../build"}

Ch(s, i) == SubSeq(s, i, i)

\* the place of the last c in s, 0 when s has none
RECURSIVE LastIndexOf(_, _)
LastIndexOf(s, c) ==
    IF Len(s) = 0 THEN 0
    ELSE IF Ch(s, Len(s)) = c THEN Len(s)
    ELSE LastIndexOf(SubSeq(s, 1, Len(s) - 1), c)

\* DirEntry::file_name of the root: the last component of the path given,
\* and the path itself when it ends in . or ..
file_name(path) ==
    LET k == LastIndexOf(path, "/")
        tail == SubSeq(path, k + 1, Len(path))
    IN IF tail \in {".", "..", ""} THEN path ELSE tail

\* Path::extension: what follows the last dot of the file name, none for a
\* name without a dot or whose only dot leads it
NoExt == "<no extension>"
extension(name) ==
    LET k == LastIndexOf(name, ".") IN
    IF k <= 1 THEN NoExt ELSE SubSeq(name, k + 1, Len(name))

\* the path WalkDir reports for the entry at place i of the tree under dir
RECURSIVE PathOf(_, _, _)
PathOf(t, dir, i) ==
    IF i = 0 THEN dir
    ELSE Join(PathOf(t, dir, ParentOf(t, i)), t[i].name)

\* WalkDir without max_depth: the root, then every entry
Walked_any_depth(t, dir) ==
    <<[depth |-> 0, name |-> file_name(dir), kind |-> "dir", path |-> dir]>>
    \o [j \in 1..Len(t) |->
          [depth |-> t[j].depth, name |-> t[j].name, kind |-> t[j].kind,
           path |-> PathOf(t, dir, j)]]

\* what WalkDir yields under max_depth: the root, then the entries no deeper
\* than MAX_DEPTH, each with its path
Walked(t, dir) ==
    <<[depth |-> 0, name |-> file_name(dir), kind |-> "dir", path |-> dir]>>
    \o [i \in 1..Len(SelectSeq(t, LAMBDA e : e.depth <= MAX_DEPTH)) |->
          LET kept == { j \in 1..Len(t) : t[j].depth <= MAX_DEPTH }
              j == CHOOSE j \in kept :
                      Cardinality({k \in kept : k <= j}) = i
          IN [depth |-> t[j].depth, name |-> t[j].name, kind |-> t[j].kind,
              path |-> PathOf(t, dir, j)]]

\* keep_entry testing the name of the directories right below the root only
keep_entry_below_root_only(e) ==
    ~(e.kind = "dir" /\ e.depth <= 1 /\ e.name \in excluded_dirs)

\* keep_entry sparing the directory the walk starts from
keep_entry_spares_root(e) ==
    ~(e.kind = "dir" /\ e.depth >= 1 /\ e.name \in excluded_dirs)

\* the closure handed to filter_entry: false for a directory whose name is
\* excluded
keep_entry(e) == ~(e.kind = "dir" /\ e.name \in excluded_dirs)

\* FilterEntry::next over the walk w from place i: an entry the closure
\* rejects is dropped and, being a directory, skip_current_dir drops what is
\* below it.  skip is the depth of the directory being skipped, -1 for none
RECURSIVE filter_entry(_, _, _)
filter_entry(w, i, skip) ==
    IF i > Len(w) THEN <<>>
    ELSE IF skip >= 0 /\ w[i].depth > skip THEN filter_entry(w, i + 1, skip)
    ELSE IF ~keep_entry(w[i]) THEN filter_entry(w, i + 1, w[i].depth)
    ELSE <<w[i]>> \o filter_entry(w, i + 1, -1)

\* the closure handed to filter: the extension is py
is_py(e) == extension(e.name) = "py"

\* find_python_files: the paths of the entries that pass both filters
find_python_files(t, dir) ==
    LET found == SelectSeq(filter_entry(Walked(t, dir), 1, -1), is_py)
    IN [i \in 1..Len(found) |-> found[i].path]

(***************************************************************************)
(* main.rs: extract_dependencies                                           *)
(***************************************************************************)
\* [a-zA-Z0-9_]
IdentChars ==
    {"a", "b", "c", "d", "e", "f", "g", "h", "i", "j", "k", "l", "m",
     "n", "o", "p", "q", "r", "s", "t", "u", "v", "w", "x", "y", "z",
     "A", "B", "C", "D", "E", "F", "G", "H", "I", "J", "K", "L", "M",
     "N", "O", "P", "Q", "R", "S", "T", "U", "V", "W", "X", "Y", "Z",
     "0", "1", "2", "3", "4", "5", "6", "7", "8", "9", "_"}

\* \s of the regex crate, on the characters of the model's files
IsWhite(c) == c \in {" ", "\t", "\n", "\r", "\f"}

\* the first place from i on that holds no white space
RECURSIVE SkipWhite(_, _)
SkipWhite(s, i) ==
    IF i <= Len(s) /\ IsWhite(Ch(s, i)) THEN SkipWhite(s, i + 1) ELSE i

\* the first place from i on that holds no identifier character
RECURSIVE SkipIdent(_, _)
SkipIdent(s, i) ==
    IF i <= Len(s) /\ Ch(s, i) \in IdentChars THEN SkipIdent(s, i + 1) ELSE i

\* s holds word w at place i
HasAt(s, i, w) ==
    i + Len(w) - 1 <= Len(s) /\ SubSeq(s, i, i + Len(w) - 1) = w

\* (?m)^: place i starts a line
LineStart(s, i) == i = 1 \/ Ch(s, i - 1) = "\n"

\* a match of ^\s*(?:import|from)\s+([a-zA-Z0-9_]+) that starts at place i:
\* the capture and the place after it; found is false when there is none
import_re_at(s, i) ==
    LET j == SkipWhite(s, i)
        k == IF HasAt(s, j, "import") THEN j + Len("import")
             ELSE IF HasAt(s, j, "from") THEN j + Len("from")
             ELSE 0
        m == SkipWhite(s, k)
        n == SkipIdent(s, m)
    IN IF LineStart(s, i) /\ k > 0 /\ m > k /\ n > m
       THEN [found |-> TRUE, name |-> SubSeq(s, m, n - 1), end |-> n]
       ELSE [found |-> FALSE, name |-> "", end |-> i]

\* import_re.captures_iter(content): the captures of the successive matches
\* from place i on, leftmost first, none overlapping
RECURSIVE captures_iter(_, _)
captures_iter(s, i) ==
    IF i > Len(s) THEN <<>>
    ELSE LET m == import_re_at(s, i) IN
         IF m.found THEN <<m.name>> \o captures_iter(s, m.end)
         ELSE captures_iter(s, i + 1)

\* the table of is_standard_library
std_libs ==
    {"os", "sys", "re", "math", "json", "time", "datetime", "random",
     "collections", "itertools", "functools", "pathlib", "subprocess",
     "typing", "abc", "argparse", "enum", "logging", "io", "csv",
     "__future__", "site", "threading", "importlib", "runpy",
     "asyncio", "base64", "calendar", "contextlib", "copy", "dataclasses",
     "decimal", "difflib", "email", "hashlib", "html", "http", "inspect",
     "ipaddress", "multiprocessing", "operator", "platform", "pprint",
     "queue", "shutil", "signal", "socket", "sqlite3", "ssl", "statistics",
     "string", "struct", "tempfile", "textwrap", "unittest", "urllib",
     "uuid", "warnings", "xml", "zipfile", "zlib", "builtins", "codecs",
     "traceback", "pickle", "gzip", "array", "bisect", "configparser",
     "context", "ctypes", "distutils", "fnmatch", "fractions", "ftplib",
     "getpass", "gettext", "glob", "heapq", "imp", "keyword", "marshal",
     "mimetypes", "numbers", "optparse", "posixpath", "profile", "pwd",
     "shelve", "smtplib", "symtable", "sysconfig", "tarfile", "telnetlib",
     "token", "turtle", "uu", "weakref", "winreg"}

\* is_standard_library with a table that stops after its first name
is_standard_library_short_table(module) == module \in {"os"}

is_standard_library(module) == module \in std_libs

\* Vec::contains
Contains(v, x) == \E i \in 1..Len(v) : v[i] = x

\* no entry of v occurs twice
NoDuplicates(v) == \A i, j \in 1..Len(v) : v[i] = v[j] => i = j

\* fs::read_to_string(file) on tree t: the content of the readable file at
\* that path, Unreadable for a directory, a missing path, a failed read
read_to_string(t, file) ==
    LET hits == { i \in 1..Len(t) :
                    \E dir \in Roots : PathOf(t, dir, i) = file }
    IN IF hits = {} THEN Unreadable
       ELSE LET i == CHOOSE i \in hits : TRUE IN
            IF t[i].kind = "file" THEN t[i].content ELSE Unreadable

\* the inner loop: push each capture that is neither in the list nor in the
\* standard library
RECURSIVE push_modules(_, _)
push_modules(deps, caps) ==
    IF caps = <<>> THEN deps
    ELSE LET module == Head(caps) IN
         IF ~Contains(deps, module) /\ ~is_standard_library(module)
         THEN push_modules(Append(deps, module), Tail(caps))
         ELSE push_modules(deps, Tail(caps))

\* scan_files keeping one list per file: a name is pushed again when a
\* later file imports it
RECURSIVE scan_files_per_file(_, _, _)
scan_files_per_file(t, deps, files) ==
    IF files = <<>> THEN deps
    ELSE LET content == read_to_string(t, Head(files)) IN
         IF content = Unreadable
         THEN scan_files_per_file(t, deps, Tail(files))
         ELSE scan_files_per_file(
                 t, deps \o push_modules(<<>>, captures_iter(content, 1)),
                 Tail(files))

\* scan_files giving up at the first file that cannot be read
RECURSIVE scan_files_stops_at_unreadable(_, _, _)
scan_files_stops_at_unreadable(t, deps, files) ==
    IF files = <<>> THEN deps
    ELSE LET content == read_to_string(t, Head(files)) IN
         IF content = Unreadable
         THEN deps
         ELSE scan_files_stops_at_unreadable(
                 t, push_modules(deps, captures_iter(content, 1)),
                 Tail(files))

\* the outer loop over python_files; a file that cannot be read is passed
RECURSIVE scan_files(_, _, _)
scan_files(t, deps, files) ==
    IF files = <<>> THEN deps
    ELSE LET content == read_to_string(t, Head(files)) IN
         IF content = Unreadable
         THEN scan_files(t, deps, Tail(files))
         ELSE scan_files(t, push_modules(deps, captures_iter(content, 1)),
                         Tail(files))

\* extract_dependencies: nothing is done on an empty file list; otherwise the
\* list is cleared and filled from the files
extract_dependencies(t, files, deps) ==
    IF files = <<>> THEN deps ELSE scan_files(t, <<>>, files)

(***************************************************************************)
(* main.rs: normalize_package_name                                         *)
(***************************************************************************)
\* a table in which the published name of PIL is the import name of another
\* pair
package_mappings_chained ==
    << <<"yaml", "PyYAML">>, <<"PIL", "bs4">>,
       <<"bs4", "beautifulsoup4">>, <<"sklearn", "scikit-learn">> >>

\* import name, published name
package_mappings ==
    << <<"yaml", "PyYAML">>, <<"PIL", "Pillow">>,
       <<"bs4", "beautifulsoup4">>, <<"sklearn", "scikit-learn">> >>

\* the names rejected as captures of text that is no import
invalid_names ==
    {"name", "the", "header", "REPL", "code", "types", "stat", "line",
     "inline", "another", "all", "values", "its", "regular", "each",
     "within", "working", "source", "on", "what", "an", "multiple", "being",
     "that", "this", "inside", "one", "floats", "those", "limited_api1",
     "limited_api_latest", "limited_api2", "array_interface_testing",
     "mem_policy", "checks", "1", "0", "left", "lowest", "pairs", "t2",
     "it", "outside", "running"}

\* the loop over package_mappings from place i: the first pair whose import
\* name is the module
RECURSIVE lookup_mapping(_, _)
lookup_mapping(m, i) ==
    IF i > Len(package_mappings) THEN None
    ELSE IF m = package_mappings[i][1] THEN Some(package_mappings[i][2])
    ELSE lookup_mapping(m, i + 1)

\* normalize_package_name without the table of published names
normalize_package_name_no_mappings(m) ==
    IF \/ Len(m) <= 1
       \/ starts_with(m, "_")
       \/ is_standard_library(m)
       \/ m \in invalid_names
    THEN None
    ELSE Some(m)

\* normalize_package_name without the list of rejected names
normalize_package_name_no_invalid_names(m) ==
    IF lookup_mapping(m, 1) # None THEN lookup_mapping(m, 1)
    ELSE IF Len(m) <= 1 \/ starts_with(m, "_") \/ is_standard_library(m)
    THEN None
    ELSE Some(m)

\* normalize_package_name: the published name of a mapped module, None for
\* a rejected name, the name itself otherwise
normalize_package_name(m) ==
    IF lookup_mapping(m, 1) # None THEN lookup_mapping(m, 1)
    ELSE IF \/ Len(m) <= 1
            \/ starts_with(m, "_")
            \/ is_standard_library(m)
            \/ m \in invalid_names
    THEN None
    ELSE Some(m)

(***************************************************************************)
(* SpecNorm: normalize_package_name on the names it may be given.  Its     *)
(* only caller hands it entries of the dependency list, which are captures *)
(* of [a-zA-Z0-9_]+; the empty name is added as the shortest string.       *)
(***************************************************************************)
Names ==
    { package_mappings[i][1] : i \in 1..Len(package_mappings) }
    \cup { package_mappings[i][2] : i \in {1, 2, 3} }
    \cup invalid_names
    \cup std_libs
    \cup {"", "_", "a", "Z", "7", "__", "_private", "__init__", "np", "x1",
          "requests", "numpy", "flask", "Yaml", "yaml2", "pil", "The",
          "os_", "a_b"}

InitNorm ==
    /\ mod_name \in Names
    /\ normalized = Pending
    /\ bin_path = NoPath
    /\ os_type = "linux"
    /\ arch = "x64"
    /\ resources = {}
    /\ home = TRUE
    /\ cache = [d \in AppDirs |-> "absent"]
    /\ call = NoCall
    /\ tree = <<>>
    /\ python_files = <<>>
    /\ dependencies = <<>>
    /\ last = [op |-> "new", dir |-> "."]
    /\ GenIdle
    /\ FlowIdle
    /\ ConcIdle
    /\ BootIdle

NormalizePackageName ==
    /\ normalized = Pending
    /\ normalized' = normalize_package_name(mod_name)
    /\ UNCHANGED mod_name
    /\ UNCHANGED <<provVars, scanVars, genVars, bootVars>>
    /\ UNCHANGED <<flowVars, concVars>>

NextNorm == NormalizePackageName

SpecNorm == InitNorm /\ [][NextNorm]_vars

(***************************************************************************)
(* Properties of the normaliser, checked under SpecNorm.                   *)
(***************************************************************************)
\* C11: a name that equals a key of the alias table is mapped to its
\* published name (yaml to PyYAML, PIL to Pillow, bs4 to beautifulsoup4,
\* sklearn to scikit-learn) and is never rejected.
C11_AliasKeysAreMapped ==
    normalized # Pending =>
        /\ mod_name = "yaml" => normalized = Some("PyYAML")
        /\ mod_name = "PIL" => normalized = Some("Pillow")
        /\ mod_name = "bs4" => normalized = Some("beautifulsoup4")
        /\ mod_name = "sklearn" => normalized = Some("scikit-learn")

C11_Witness ==
    /\ mod_name = "sklearn"
    /\ normalized = Some("scikit-learn")

\* the rejection filter as the specification words it
Rejected(m) ==
    \/ Len(m) <= 1
    \/ SubSeq(m, 1, 1) = "_"
    \/ m \in std_libs
    \/ m \in invalid_names

\* C12: for a name that is no alias key the result is none exactly when the
\* name has length <= 1, starts with '_', is in the standard-library table
\* or is in the list of known false positives ('_', 'a', 'the' among them),
\* and is the name unchanged otherwise.
C12_RejectedOrUnchanged ==
    (normalized # Pending /\ mod_name \notin {"yaml", "PIL", "bs4", "sklearn"})
        => /\ normalized = None <=> Rejected(mod_name)
           /\ ~Rejected(mod_name) => normalized = Some(mod_name)
           /\ mod_name \in {"_", "a", "the"} => normalized = None

C12_Witness ==
    /\ mod_name = "the"
    /\ normalized = None

\* C30: normalize_package_name is idempotent on its outputs: a name it
\* returns is returned unchanged when given back to it; no published name of
\* the alias table is an import name of the table, a rejected name or a
\* standard-library name.
C30_NormalizeIsIdempotent ==
    /\ normalized \notin {Pending, None}
          => normalize_package_name(normalized.val) = normalized
    /\ \A i \in 1..Len(package_mappings) :
          /\ \A j \in 1..Len(package_mappings) :
                package_mappings[i][2] # package_mappings[j][1]
          /\ ~Rejected(package_mappings[i][2])
          /\ ~is_standard_library(package_mappings[i][2])

C30_Witness ==
    /\ mod_name = "PIL"
    /\ normalized = Some("Pillow")
    /\ normalize_package_name("Pillow") = Some("Pillow")

(***************************************************************************)
(* main.rs: generate_requirements_file                                     *)
(***************************************************************************)
\* fs::write: the file cannot be created or truncated ("create", the old
\* file stays), or the write stops after the file was truncated ("write",
\* the file keeps some part of the content, short of all of it)
WriteOutcomes == {"none", "create", "write"}

\* a file cut short by a failed write: some proper prefix of the content
Partial == "<cut short>"

\* the loop over the dependencies: a line for each name that normalises
RECURSIVE build_content(_)
build_content(deps) ==
    IF deps = <<>> THEN ""
    ELSE LET normalized_dep == normalize_package_name(Head(deps)) IN
         (IF normalized_dep # None THEN normalized_dep.val \o "\n" ELSE "")
         \o build_content(Tail(deps))

\* the loop writing every name as it is in the list
RECURSIVE build_content_raw(_)
build_content_raw(deps) ==
    IF deps = <<>> THEN ""
    ELSE Head(deps) \o "\n" \o build_content_raw(Tail(deps))

\* what fs::write(path, content) makes of disk d
fs_write(d, path, content, w) ==
    IF w = "create"
    THEN [result |-> Err("cannot write " \o path), disk |-> d]
    ELSE IF w = "write" /\ content # ""
    THEN [result |-> Err("cannot write " \o path),
          disk |-> [d EXCEPT ![path] = Partial]]
    ELSE [result |-> Ok(Unit), disk |-> [d EXCEPT ![path] = content]]

\* generate_requirements_file writing the names without normalising them
generate_requirements_file_raw(d, deps, target_dir, w) ==
    fs_write(d, requirements_path(target_dir), build_content_raw(deps), w)

\* generate_requirements_file adding to the file that is there
generate_requirements_file_appends(d, deps, target_dir, w) ==
    LET path == requirements_path(target_dir)
        old == IF d[path] \in {NoFile, Partial} THEN "" ELSE d[path]
    IN fs_write(d, path, old \o build_content(deps), w)

\* generate_requirements_file: the result, and the disk it leaves
generate_requirements_file(d, deps, target_dir, w) ==
    fs_write(d, requirements_path(target_dir), build_content(deps), w)

(***************************************************************************)
(* SpecGen: the analyze and gen-req commands of main, run one after the    *)
(* other on a directory that does not change.  Each command is a process   *)
(* of its own: it starts from PyWand::new and leaves its files on disk.    *)
(***************************************************************************)
\* files in the scanned directory
MaxFiles == 2

GenShapes ==
    { [name |-> "a.py", kind |-> "file", content |-> "import requests\n"],
      [name |-> "y.py", kind |-> "file",
       content |-> "import yaml\nimport requests\nimport PyYAML\n"],
      [name |-> "n.py", kind |-> "file",
       content |-> "import the\nfrom _x import y\nimport a\nimport flask\n"] }

\* the directories of n files, in any order of the walk
RECURSIVE FlatTrees(_)
FlatTrees(n) ==
    IF n = 0 THEN { <<>> }
    ELSE UNION { { Append(t, Entry(x, 1)) :
                     x \in { y \in GenShapes : MayFollow(t, Entry(y, 1)) } } :
                 t \in FlatTrees(n - 1) }

GenTrees == UNION { FlatTrees(n) : n \in 0..MaxFiles }

InitGen ==
    /\ tree \in GenTrees
    /\ python_files = <<>>
    /\ dependencies = <<>>
    /\ last = [op |-> "new", dir |-> "."]
    /\ GenIdle
    /\ FlowIdle
    /\ ConcIdle
    /\ bin_path = NoPath
    /\ os_type = "linux"
    /\ arch = "x64"
    /\ resources = {}
    /\ home = TRUE
    /\ cache = [d \in AppDirs |-> "absent"]
    /\ call = NoCall
    /\ NormIdle
    /\ BootIdle

\* pywand analyze <path>: PyWand::new, find_python_files, extract_dependencies
Analyze ==
    \E path \in Roots :
        LET files == find_python_files(tree, path)
            deps == extract_dependencies(tree, files, <<>>)
        IN
        /\ python_files' = files
        /\ dependencies' = deps
        /\ last' = [op |-> "extract_dependencies", dir |-> path]
        /\ gen' = [op |-> "analyze", path |-> path]
        /\ UNCHANGED <<tree, disk>>
        /\ UNCHANGED <<provVars, normVars, bootVars>>
        /\ UNCHANGED <<flowVars, concVars>>

\* pywand gen-req <path> <output>: PyWand::new, find_python_files,
\* extract_dependencies, generate_requirements_file.  The record keeps
\* whether the command before this one was the same command and succeeded
GenReq ==
    \E path \in Roots :
        LET files == find_python_files(tree, path)
            deps == extract_dependencies(tree, files, <<>>)
        IN
        \E output \in Targets, w \in WriteOutcomes :
        LET g == generate_requirements_file(disk, deps, output, w) IN
        /\ python_files' = files
        /\ dependencies' = deps
        /\ last' = [op |-> "generate_requirements_file", dir |-> path]
        /\ disk' = g.disk
        /\ gen' = [op |-> "gen_req", path |-> path, output |-> output,
                   write |-> w, result |-> g.result,
                   repeated |-> /\ gen.op = "gen_req"
                                /\ gen.result.ok
                                /\ gen.path = path
                                /\ gen.output = output]
        /\ UNCHANGED tree
        /\ UNCHANGED <<provVars, normVars, bootVars>>
        /\ UNCHANGED <<flowVars, concVars>>

NextGen == Analyze \/ GenReq

SpecGen == InitGen /\ [][NextGen]_vars

(***************************************************************************)
(* Properties of the manifest, checked under SpecGen.                      *)
(***************************************************************************)
\* the place of the first c in s from place i on, 0 when there is none
RECURSIVE FirstIndexOf(_, _, _)
FirstIndexOf(s, c, i) ==
    IF i > Len(s) THEN 0
    ELSE IF SubSeq(s, i, i) = c THEN i
    ELSE FirstIndexOf(s, c, i + 1)

\* the lines of a text: what stands before each newline, and what follows
\* the last one when that is not empty
RECURSIVE Lines(_)
Lines(text) ==
    IF text = "" THEN <<>>
    ELSE LET k == FirstIndexOf(text, "\n", 1) IN
         IF k = 0 THEN <<text>>
         ELSE <<SubSeq(text, 1, k - 1)>>
              \o Lines(SubSeq(text, k + 1, Len(text)))

\* the text is empty or ends in a newline
Terminated(text) ==
    text = "" \/ SubSeq(text, Len(text), Len(text)) = "\n"

\* the names of the list that normalise, normalised, in the list's order
NormalizedNames(deps) ==
    LET kept == SelectSeq(deps, LAMBDA d : normalize_package_name(d) # None)
    IN [i \in 1..Len(kept) |-> normalize_package_name(kept[i]).val]

\* the last command was gen-req and its write succeeded
Wrote == gen.op = "gen_req" /\ gen.result.ok

\* the manifest the last gen-req command wrote
Manifest == disk[requirements_path(gen.output)]

\* C13: after generate_requirements_file succeeds, the file
\* <targetDir>/requirements.txt holds exactly the normalised names of the
\* dependency list, one per line in the list's order, each followed by a
\* newline; a name that normalises to none gives no line, and a list none of
\* whose names normalises gives an empty file.
C13_ManifestIsNormalizedNames ==
    Wrote =>
        /\ requirements_path(gen.output)
              \in {"./requirements.txt", "out/requirements.txt"}
        /\ Manifest \notin {NoFile, Partial}
        /\ Terminated(Manifest)
        /\ Lines(Manifest) = NormalizedNames(dependencies)
        /\ NormalizedNames(dependencies) = <<>> => Manifest = ""

C13_Witness ==
    /\ Wrote
    /\ gen.output = "out/"
    /\ dependencies = <<"the", "_x", "a", "flask", "requests">>
    /\ disk["out/requirements.txt"] = "flask\nrequests\n"

\* C14: a gen-req command run right after the same successful gen-req
\* command, on the same directory and output, leaves the manifest byte for
\* byte as the first left it.
C14_SecondRunSameManifest ==
    [][ (gen'.op = "gen_req" /\ gen'.repeated /\ gen'.result.ok) =>
            disk'[requirements_path(gen'.output)]
                = disk[requirements_path(gen'.output)] ]_vars

C14_Witness ==
    /\ Wrote
    /\ gen.repeated
    /\ Manifest = "requests\n"

\* C15: no two lines of a written manifest are equal, also when two import
\* names normalise to the same package name.
C15_ManifestHasNoDuplicateLine ==
    Wrote => NoDuplicates(Lines(Manifest))

\* C21: after an extraction no element of the dependency list is on the
\* noise list (length <= 1, a leading underscore, a known false positive):
\* each is a name normalize_package_name accepts.
C21_DependenciesHoldNoNoise ==
    gen.op \in {"analyze", "gen_req"} =>
        \A i \in 1..Len(dependencies) :
            /\ Len(dependencies[i]) > 1
            /\ SubSeq(dependencies[i], 1, 1) # "_"
            /\ dependencies[i] \notin invalid_names
            /\ normalize_package_name(dependencies[i]) # None

(***************************************************************************)
(* Spec: one PyWand, the tree it is run on, and the calls made on it.      *)
(***************************************************************************)
Init ==
    /\ tree \in Trees
    /\ python_files = <<>>
    /\ dependencies = <<>>
    /\ last = [op |-> "new", dir |-> "."]
    /\ bin_path = NoPath
    /\ os_type = "linux"
    /\ arch = "x64"
    /\ resources = {}
    /\ home = TRUE
    /\ cache = [d \in AppDirs |-> "absent"]
    /\ call = NoCall
    /\ NormIdle
    /\ GenIdle
    /\ FlowIdle
    /\ ConcIdle
    /\ BootIdle

FindPythonFiles ==
    \E dir \in Roots :
        /\ python_files' = find_python_files(tree, dir)
        /\ last' = [op |-> "find_python_files", dir |-> dir]
        /\ UNCHANGED <<tree, dependencies>>
        /\ UNCHANGED provVars
        /\ UNCHANGED <<normVars, genVars, bootVars>>
        /\ UNCHANGED <<flowVars, concVars>>

ExtractDependencies ==
    /\ dependencies' = extract_dependencies(tree, python_files, dependencies)
    /\ last' = [op |-> "extract_dependencies", dir |-> last.dir,
                result |-> Ok(Unit)]
    /\ UNCHANGED <<tree, python_files>>
    /\ UNCHANGED provVars
    /\ UNCHANGED <<normVars, genVars, bootVars>>
    /\ UNCHANGED <<flowVars, concVars>>

Next == FindPythonFiles \/ ExtractDependencies

Spec == Init /\ [][Next]_vars

(***************************************************************************)
(* Properties of the scan and the extraction, checked under Spec.          *)
(***************************************************************************)
\* the place in the tree of a path the last scan reported
EntryOf(path) ==
    CHOOSE i \in 1..Len(tree) : PathOf(tree, last.dir, i) = path

\* the directories above the entry at place i, the root (place 0) included
RECURSIVE AncestorsOf(_, _)
AncestorsOf(t, i) ==
    IF i = 0 THEN {}
    ELSE {ParentOf(t, i)} \cup AncestorsOf(t, ParentOf(t, i))

\* the name of the directory at place a, the root by the name it was given
DirName(a) == IF a = 0 THEN file_name(last.dir) ELSE tree[a].name

\* the entry at place i lies in a directory with an excluded name
UnderExcluded(i) ==
    \E a \in AncestorsOf(tree, i) : DirName(a) \in excluded_dirs

\* C6: whatever the tree, no path of python_files lies in a directory whose
\* name is in the exclusion set, at any depth; the directories are those of
\* the scanned tree, from the root (by the name it was given) down.
C6_NothingUnderExcludedDirs ==
    \A k \in 1..Len(python_files) :
        /\ \E i \in 1..Len(tree) :
              PathOf(tree, last.dir, i) = python_files[k]
        /\ ~UnderExcluded(EntryOf(python_files[k]))

C6_Witness ==
    /\ last.op = "find_python_files"
    /\ python_files # <<>>
    /\ \E i \in 1..Len(tree) :
          /\ extension(tree[i].name) = "py"
          /\ tree[i].kind = "file"
          /\ UnderExcluded(i)

\* the files (not directories) with extension py within the depth bound
\* that no excluded directory lies above
PyFilesInReach ==
    { i \in 1..Len(tree) :
        /\ tree[i].kind = "file"
        /\ extension(tree[i].name) = "py"
        /\ tree[i].depth <= MAX_DEPTH
        /\ ~UnderExcluded(i) }

\* C7: the scan yields exactly the files with extension py in reach: each of
\* them, and never a directory nor an entry with another extension.
C7_ScanYieldsExactlyPyFiles ==
    last.op = "find_python_files" =>
        { python_files[k] : k \in 1..Len(python_files) }
            = { PathOf(tree, last.dir, i) : i \in PyFilesInReach }

\* the captures of the readable files of a batch, in file order and then in
\* the order of the text
RECURSIVE BatchCaptures(_)
BatchCaptures(files) ==
    IF files = <<>> THEN <<>>
    ELSE LET content == read_to_string(tree, Head(files)) IN
         (IF content = Unreadable THEN <<>> ELSE captures_iter(content, 1))
         \o BatchCaptures(Tail(files))

\* the captures at the places where a name outside the standard library
\* occurs for the first time, in the order of those places
RECURSIVE FirstSeen(_, _)
FirstSeen(caps, k) ==
    IF k > Len(caps) THEN <<>>
    ELSE (IF caps[k] \notin std_libs /\ \A j \in 1..(k - 1) : caps[j] # caps[k]
          THEN <<caps[k]>> ELSE <<>>)
         \o FirstSeen(caps, k + 1)

\* C8: the dependency list never holds a name twice, and after
\* extract_dependencies over a batch of files it holds the captured names
\* in the order of their first occurrence across the whole batch.
C8_FirstSeenOrderAcrossBatch ==
    /\ NoDuplicates(dependencies)
    /\ (last.op = "extract_dependencies" /\ python_files # <<>>) =>
          dependencies = FirstSeen(BatchCaptures(python_files), 1)

C8_Witness ==
    /\ last.op = "extract_dependencies"
    /\ python_files = <<"./a.py", "./b.py">>
    /\ BatchCaptures(python_files) = <<"requests", "requests", "numpy">>
    /\ dependencies = <<"requests", "numpy">>

\* C9: the dependency list never holds a name of the standard-library
\* table, and files whose only imports are standard-library modules give an
\* empty list.
C9_NoStandardLibraryNames ==
    /\ \A i \in 1..Len(dependencies) : dependencies[i] \notin std_libs
    /\ ( /\ last.op = "extract_dependencies"
         /\ python_files # <<>>
         /\ \A k \in 1..Len(BatchCaptures(python_files)) :
               BatchCaptures(python_files)[k] \in std_libs )
       => dependencies = <<>>

C9_Witness ==
    /\ last.op = "extract_dependencies"
    /\ python_files = <<"./c.py">>
    /\ BatchCaptures(python_files) = <<"os", "sys">>
    /\ dependencies = <<>>

\* the files of a batch that fs::read_to_string can read
Readable(files) ==
    SelectSeq(files, LAMBDA f : read_to_string(tree, f) # Unreadable)

\* C19: a file of the batch that cannot be read (no permission, text that
\* is not UTF-8, a directory) is passed over: extract_dependencies returns
\* success and the list it leaves is the one the batch without those files
\* gives.
C19_UnreadableFilesAreSkipped ==
    (last.op = "extract_dependencies" /\ python_files # <<>>) =>
        /\ last.result = Ok(Unit)
        /\ dependencies
              = extract_dependencies(tree, Readable(python_files), <<>>)

C19_Witness ==
    /\ last.op = "extract_dependencies"
    /\ python_files = <<"./u.py", "./pkg.py", "./a.py">>
    /\ Readable(python_files) = <<"./a.py">>
    /\ dependencies = <<"requests">>

\* C29: the exclusion test applies to the directory the scan starts from:
\* a scan of ../build, whose base name is excluded, yields nothing, whatever
\* the directory holds, while a scan of . yields the entries with extension
\* py right below it.
C29_ExcludedRootYieldsNothing ==
    last.op = "find_python_files" =>
        /\ last.dir = "../build" => python_files = <<>>
        /\ last.dir = "." =>
              \A i \in 1..Len(tree) :
                 (tree[i].depth = 1 /\ extension(tree[i].name) = "py")
                    => Contains(python_files, "./" \o tree[i].name)

C29_Witness ==
    /\ last.op = "find_python_files"
    /\ last.dir = "../build"
    /\ \E i \in 1..Len(tree) :
          /\ tree[i].depth = 1
          /\ tree[i].kind = "file"
          /\ extension(tree[i].name) = "py"
    /\ python_files = <<>>

(***************************************************************************)
(* SpecDeep: the scan and the extraction on deep trees: directories nested *)
(* one in another, with Python files in the deepest of them.               *)
(***************************************************************************)
\* directories nested one in another
MaxChain == 11

\* the members of a set of numbers, the largest first
RECURSIVE Descending(_)
Descending(S) ==
    IF S = {} THEN <<>>
    ELSE LET m == CHOOSE x \in S : \A y \in S : y <= x
         IN <<m>> \o Descending(S \ {m})

\* k directories named d, each in the one before, and a file m.py at each
\* depth of D: the walk meets the directories on its way down and the files
\* on its way back
Chain(k, D) ==
    [i \in 1..k |->
        [depth |-> i, name |-> "d", kind |-> "dir", content |-> Unreadable]]
    \o [i \in 1..Cardinality(D) |->
          [depth |-> Descending(D)[i], name |-> "m.py", kind |-> "file",
           content |-> "import requests\n"]]

DeepTrees ==
    UNION { { Chain(k, D) : D \in SUBSET { x \in {k - 1, k, k + 1} : x >= 1 } }
            : k \in 0..MaxChain }

InitDeep ==
    /\ tree \in DeepTrees
    /\ python_files = <<>>
    /\ dependencies = <<>>
    /\ last = [op |-> "new", dir |-> "."]
    /\ bin_path = NoPath
    /\ os_type = "linux"
    /\ arch = "x64"
    /\ resources = {}
    /\ home = TRUE
    /\ cache = [d \in AppDirs |-> "absent"]
    /\ call = NoCall
    /\ NormIdle
    /\ GenIdle
    /\ FlowIdle
    /\ ConcIdle
    /\ BootIdle

SpecDeep == InitDeep /\ [][Next]_vars

(***************************************************************************)
(* Properties of the scan on deep trees, checked under SpecDeep.           *)
(***************************************************************************)
\* C23: no path of python_files lies more than 10 levels below the scanned
\* directory: a file with extension py at depth 11 or more is never
\* yielded, and one at depth 10 or less, outside the excluded directories,
\* is.
C23_NothingDeeperThanTen ==
    /\ \A k \in 1..Len(python_files) :
          \E i \in 1..Len(tree) :
             /\ PathOf(tree, last.dir, i) = python_files[k]
             /\ tree[i].depth <= 10
    /\ last.op = "find_python_files" =>
          \A i \in 1..Len(tree) :
             (tree[i].kind = "file" /\ extension(tree[i].name) = "py")
                => ( Contains(python_files, PathOf(tree, last.dir, i))
                     <=> (tree[i].depth <= 10 /\ ~UnderExcluded(i)) )

C23_Witness ==
    /\ last.op = "find_python_files"
    /\ last.dir = "."
    /\ \E i, j \in 1..Len(tree) :
          /\ tree[i].kind = "file" /\ tree[i].depth = 11
          /\ tree[j].kind = "file" /\ tree[j].depth = 10
    /\ Len(python_files) = 1

(***************************************************************************)
(* main.rs: the commands that build an environment (local-dev, test and    *)
(* no command through the menu, run, pip).  gen holds the command, the     *)
(* call the handler is at, and the calls it made so far.                   *)
(***************************************************************************)
\* a call the handler made: the handle of the UvManager when it was made,
\* whether ./requirements.txt existed, whether it returned Ok, and whether
\* it started the tool
StepOf(step, r, started) ==
    [step |-> step, handle |-> bin_path,
     manifest |-> disk[requirements_path(".")] # NoFile,
     ok |-> r.ok, spawned |-> started]

\* the handler going on after a failed write of the manifest
after_step_ignores_write_error(op, step, ok) ==
    IF ~ok /\ step # "generate_requirements_file" THEN "done"
    ELSE IF step = "ensure_available" THEN "create_venv"
    ELSE IF step = "create_venv"
    THEN IF op = "pip" THEN "create_activation_scripts"
         ELSE "generate_requirements_file"
    ELSE IF step = "generate_requirements_file" THEN "install_dependencies"
    ELSE IF step = "install_dependencies" THEN "create_activation_scripts"
    ELSE IF step = "create_activation_scripts" /\ op = "pip"
    THEN "pip_install"
    ELSE "done"

\* the handler going on after a failed create_venv
after_step_ignores_venv_error(op, step, ok) ==
    IF ~ok /\ step # "create_venv" THEN "done"
    ELSE IF step = "ensure_available" THEN "create_venv"
    ELSE IF step = "create_venv"
    THEN IF op = "pip" THEN "create_activation_scripts"
         ELSE "generate_requirements_file"
    ELSE IF step = "generate_requirements_file" THEN "install_dependencies"
    ELSE IF step = "install_dependencies" THEN "create_activation_scripts"
    ELSE IF step = "create_activation_scripts" /\ op = "pip"
    THEN "pip_install"
    ELSE "done"

\* the call that follows a call in local_development_flow and in the pip
\* handler: every call ends in ?, so an Err ends the handler
after_step(op, step, ok) ==
    IF ~ok THEN "done"
    ELSE IF step = "ensure_available" THEN "create_venv"
    ELSE IF step = "create_venv"
    THEN IF op = "pip" THEN "create_activation_scripts"
         ELSE "generate_requirements_file"
    ELSE IF step = "generate_requirements_file" THEN "install_dependencies"
    ELSE IF step = "install_dependencies" THEN "create_activation_scripts"
    ELSE IF step = "create_activation_scripts" /\ op = "pip"
    THEN "pip_install"
    ELSE "done"

\* the steps of create_activation_scripts that can return an error; the exit
\* status of chmod is not looked at
ActivationFails ==
    {"none", "write"} \cup (IF os_type = "windows" THEN {} ELSE {"chmod"})

create_activation_scripts(a) ==
    IF a = "write" THEN Err("cannot write the activation script")
    ELSE IF os_type # "windows" /\ a = "chmod"
    THEN Err("cannot make activate.sh executable")
    ELSE Ok(Unit)

\* the head of local_development_flow, up to select_python_version: with no
\* file in the list the user picks the test suite (0), a directory (1) or
\* cancels (2), and the list is scanned again, never extracted again.  The
\* working directory holds no test-suite directory, and the walk of a
\* missing root yields no entry
choose_files(t, files, selection, input) ==
    IF files # <<>>
    THEN [files |-> files, go |-> TRUE, rescanned |-> FALSE]
    ELSE IF selection = 0
    THEN [files |-> <<>>, go |-> FALSE, rescanned |-> TRUE]
    ELSE IF selection = 1
    THEN [files |-> find_python_files(t, input),
          go |-> find_python_files(t, input) # <<>>, rescanned |-> TRUE]
    ELSE [files |-> files, go |-> FALSE, rescanned |-> FALSE]

\* Command::new(..).status().context(..)?: an Err only when the program
\* cannot be started
spawn_status(t) ==
    IF t.spawn THEN Ok(Unit) ELSE Err("cannot run the program")

\* the run handler up to the script: without .venv it creates one, then
\* installs the manifest that is there, or scans and writes one
prepare_run(files, deps, v, t1, t2, w) ==
    LET req == requirements_path(".")
        cv == create_venv(".venv", v, t1)
        g == generate_requirements_file(disk, deps, ".", w)
        inst == install_dependencies("requirements.txt", TRUE, ".venv", t2)
        s1 == <<StepOf("create_venv", cv.result, cv.events # <<>>)>>
        s2 == s1 \o <<StepOf("generate_requirements_file", g.result, FALSE)>>
        si == [step |-> "install_dependencies", handle |-> bin_path,
               manifest |-> TRUE, ok |-> inst.result.ok,
               spawned |-> inst.events # <<>>]
        out(r, st, vn, d, f, dp) ==
            [result |-> r, steps |-> st, venv |-> vn, disk |-> d,
             files |-> f, deps |-> dp]
    IN
    IF venv
    THEN out(Ok(Unit), <<>>, TRUE, disk, python_files, dependencies)
    ELSE IF ~cv.result.ok
    THEN out(cv.result, s1, FALSE, disk, python_files, dependencies)
    ELSE IF disk[req] # NoFile
    THEN out(inst.result, Append(s1, si), TRUE, disk, python_files,
             dependencies)
    ELSE IF deps = <<>>
    THEN out(Ok(Unit), s1, TRUE, disk, files, deps)
    ELSE IF ~g.result.ok
    THEN out(g.result, s2, TRUE, g.disk, files, deps)
    ELSE out(inst.result, Append(s2, si), TRUE, g.disk, files, deps)

(***************************************************************************)
(* SpecFlow: one run of the program on a working directory.  Init is the   *)
(* state PyWand::new leaves; the first action is the command, the next     *)
(* ones are the calls of its handler in the order of the code.  The builds *)
(* are those that embed the tool, on a machine with a home directory.      *)
(***************************************************************************)
FlowTrees == FlatTrees(0) \cup FlatTrees(1)

InitFlow ==
    /\ tree \in FlowTrees
    /\ python_files = <<>>
    /\ dependencies = <<>>
    /\ last = [op |-> "new", dir |-> "."]
    /\ bin_path = NoPath
    /\ \E b \in Builds :
          /\ os_type = b[1]
          /\ arch = b[2]
          /\ resources = b[3]
    /\ HasBlob
    /\ home = TRUE
    /\ cache = [d \in AppDirs |-> "absent"]
    /\ call = NoCall
    /\ disk \in { [p \in ManifestPaths |->
                     IF p = requirements_path(".") THEN c ELSE NoFile]
                  : c \in {NoFile, "flask\n"} }
    /\ gen = NoCommand
    /\ venv \in BOOLEAN
    /\ local_uv \in {"absent", "copied"}
    /\ internal_uv_path = IF local_uv = "copied" THEN local_uv_path ELSE NoPath
    /\ boot = NoBoot
    /\ NormIdle
    /\ ConcIdle

\* gen after a call of the handler
Stepped(step, r, started) ==
    [gen EXCEPT !.steps = Append(@, StepOf(step, r, started)),
                !.at = after_step(gen.op, step, r.ok),
                !.result = r]

\* pywand local-dev <path>: find_python_files, extract_dependencies, then
\* local_development_flow up to its first call on the UvManager
LocalDev ==
    /\ gen = NoCommand
    /\ \E path \in Roots :
        LET files == find_python_files(tree, path)
            deps == extract_dependencies(tree, files, dependencies)
        IN
        \E selection \in 0..2, input \in Roots :
        LET c == choose_files(tree, files, selection, input) IN
        /\ python_files' = c.files
        /\ dependencies' = deps
        /\ last' = [op |-> "local_development_flow", dir |-> path]
        /\ gen' = [op |-> "local_dev",
                   at |-> IF c.go THEN "ensure_available" ELSE "done",
                   steps |-> <<>>, result |-> Ok(Unit),
                   rescanned |-> c.rescanned]
        /\ UNCHANGED <<tree, disk, venv>>
        /\ UNCHANGED <<provVars, normVars, bootVars, concVars>>

\* pywand test <path> and pywand without a command: find_python_files,
\* extract_dependencies, then show_main_menu, whose first entry is
\* local_development_flow and whose last one leaves
ShowMainMenu ==
    /\ gen = NoCommand
    /\ \E path \in Roots :
        LET files == find_python_files(tree, path)
            deps == extract_dependencies(tree, files, dependencies)
        IN
        \E entry \in {0, 2}, selection \in 0..2, input \in Roots :
        LET c == choose_files(tree, files, selection, input) IN
        /\ python_files' = IF entry = 0 THEN c.files ELSE files
        /\ dependencies' = deps
        /\ last' = [op |-> "show_main_menu", dir |-> path]
        /\ gen' = [op |-> "menu",
                   at |-> IF entry = 0 /\ c.go THEN "ensure_available"
                          ELSE "done",
                   steps |-> <<>>, result |-> Ok(Unit),
                   rescanned |-> entry = 0 /\ c.rescanned]
        /\ UNCHANGED <<tree, disk, venv>>
        /\ UNCHANGED <<provVars, normVars, bootVars, concVars>>

\* pywand pip <packages>: with .venv the handler goes to pip at once
PipCmd ==
    /\ gen = NoCommand
    /\ gen' = [op |-> "pip",
               at |-> IF venv THEN "pip_install" ELSE "ensure_available",
               steps |-> <<>>, result |-> Ok(Unit), rescanned |-> FALSE]
    /\ UNCHANGED <<disk, venv>>
    /\ UNCHANGED <<provVars, scanVars, normVars, bootVars, concVars>>

\* pywand run <script>: the whole handler; it makes no call that changes
\* the handle of its UvManager
RunCmd ==
    /\ gen = NoCommand
    /\ LET files == find_python_files(tree, ".")
           deps == extract_dependencies(tree, files, dependencies)
       IN
       \E v \in Versions, t1 \in ToolOutcomes, t2 \in ToolOutcomes,
          w \in WriteOutcomes, ts \in ToolOutcomes :
       LET r == prepare_run(files, deps, v, t1, t2, w) IN
       /\ python_files' = r.files
       /\ dependencies' = r.deps
       /\ disk' = r.disk
       /\ venv' = r.venv
       /\ last' = [op |-> "run", dir |-> "."]
       /\ gen' = [op |-> "run", at |-> "done", steps |-> r.steps,
                  result |-> IF r.result.ok THEN spawn_status(ts)
                             ELSE r.result,
                  rescanned |-> FALSE]
       /\ UNCHANGED tree
       /\ UNCHANGED <<provVars, normVars, bootVars, concVars>>

FlowEnsureAvailable ==
    /\ gen # NoCommand
    /\ gen.at = "ensure_available"
    /\ \E e \in Envs :
        LET r == ensure_available(e) IN
        /\ bin_path' = r.bin_path
        /\ cache' = r.cache
        /\ gen' = Stepped("ensure_available", r.result, FALSE)
        /\ UNCHANGED <<os_type, arch, resources, home, call>>
        /\ UNCHANGED <<disk, venv>>
        /\ UNCHANGED <<scanVars, normVars, bootVars, concVars>>

\* uv venv leaves .venv when it succeeds
FlowCreateVenv ==
    /\ gen # NoCommand
    /\ gen.at = "create_venv"
    /\ \E v \in Versions, t \in ToolOutcomes :
        LET r == create_venv(".venv", v, t) IN
        /\ venv' = (venv \/ r.result.ok)
        /\ gen' = Stepped("create_venv", r.result, r.events # <<>>)
        /\ UNCHANGED disk
        /\ UNCHANGED <<provVars, scanVars, normVars, bootVars, concVars>>

FlowGenerateRequirements ==
    /\ gen # NoCommand
    /\ gen.at = "generate_requirements_file"
    /\ \E w \in WriteOutcomes :
        LET g == generate_requirements_file(disk, dependencies, ".", w) IN
        /\ disk' = g.disk
        /\ gen' = Stepped("generate_requirements_file", g.result, FALSE)
        /\ UNCHANGED venv
        /\ UNCHANGED <<provVars, scanVars, normVars, bootVars, concVars>>

FlowInstallDependencies ==
    /\ gen # NoCommand
    /\ gen.at = "install_dependencies"
    /\ \E t \in ToolOutcomes :
        LET r == install_dependencies("requirements.txt",
                                      disk[requirements_path(".")] # NoFile,
                                      ".venv", t)
        IN
        /\ gen' = Stepped("install_dependencies", r.result, r.events # <<>>)
        /\ UNCHANGED <<disk, venv>>
        /\ UNCHANGED <<provVars, scanVars, normVars, bootVars, concVars>>

FlowCreateActivationScripts ==
    /\ gen # NoCommand
    /\ gen.at = "create_activation_scripts"
    /\ \E a \in ActivationFails :
        /\ gen' = Stepped("create_activation_scripts",
                          create_activation_scripts(a), FALSE)
        /\ UNCHANGED <<disk, venv>>
        /\ UNCHANGED <<provVars, scanVars, normVars, bootVars, concVars>>

\* the pip of .venv, run by the pip handler
PipInstall ==
    /\ gen # NoCommand
    /\ gen.at = "pip_install"
    /\ \E t \in ToolOutcomes :
        /\ gen' = [gen EXCEPT !.at = "done", !.result = spawn_status(t)]
        /\ UNCHANGED <<disk, venv>>
        /\ UNCHANGED <<provVars, scanVars, normVars, bootVars, concVars>>

NextFlow ==
    \/ LocalDev
    \/ ShowMainMenu
    \/ PipCmd
    \/ RunCmd
    \/ FlowEnsureAvailable
    \/ FlowCreateVenv
    \/ FlowGenerateRequirements
    \/ FlowInstallDependencies
    \/ FlowCreateActivationScripts
    \/ PipInstall

SpecFlow == InitFlow /\ [][NextFlow]_vars

(***************************************************************************)
(* Properties of the commands, checked under SpecFlow.                     *)
(***************************************************************************)
Running == gen # NoCommand
Steps == IF Running THEN gen.steps ELSE <<>>
LastStep == Steps[Len(Steps)]
LocalFlow == Running /\ gen.op \in {"local_dev", "menu"}

\* C22: a manifest write that succeeds leaves exactly the new content at
\* ./requirements.txt, whatever the file held before; a write that fails
\* ends the handler with its error, and no install and no activation-script
\* generation follows it.
C22_ManifestWriteOverwritesOrAborts ==
    \A i \in 1..Len(Steps) :
        Steps[i].step = "generate_requirements_file" =>
            IF Steps[i].ok
            THEN disk[requirements_path(".")] = build_content(dependencies)
            ELSE /\ i = Len(Steps)
                 /\ gen.at = "done"
                 /\ ~gen.result.ok

C22_Witness ==
    /\ LocalFlow
    /\ gen.at = "done"
    /\ Len(Steps) = 3
    /\ LastStep.step = "generate_requirements_file"
    /\ LastStep.manifest
    /\ ~LastStep.ok
    /\ ~gen.result.ok

\* C25: create_venv, and install_dependencies with a manifest in place, are
\* called only after ensure_available succeeded in the same run, so the
\* tool handle is set when run_command executes; with an unset handle the
\* call is an error and starts no process.
C25_ToolCallsFollowEnsureAvailable ==
    \A i \in 1..Len(Steps) :
        /\ ( \/ Steps[i].step = "create_venv"
             \/ Steps[i].step = "install_dependencies" /\ Steps[i].manifest )
           => /\ \E j \in 1..(i - 1) :
                    Steps[j].step = "ensure_available" /\ Steps[j].ok
              /\ Steps[i].handle # NoPath
        /\ ( /\ Steps[i].step \in {"create_venv", "install_dependencies"}
             /\ Steps[i].handle = NoPath
             /\ Steps[i].manifest \/ Steps[i].step = "create_venv" )
           => ~Steps[i].ok /\ ~Steps[i].spawned

\* C26: a manifest that was written holds the normalised imports of the
\* files that python_files lists now.
C26_ManifestIsOfCurrentFiles ==
    \A i \in 1..Len(Steps) :
        (Steps[i].step = "generate_requirements_file" /\ Steps[i].ok)
            => disk[requirements_path(".")] =
                 build_content(scan_files(tree, <<>>, python_files))

LocalOrder ==
    <<"ensure_available", "create_venv", "generate_requirements_file",
      "install_dependencies", "create_activation_scripts">>

InLocalOrder ==
    LocalFlow =>
        /\ Len(Steps) <= Len(LocalOrder)
        /\ \A i \in 1..Len(Steps) : Steps[i].step = LocalOrder[i]
        /\ \A i \in 1..(Len(Steps) - 1) : Steps[i].ok
        /\ (Len(Steps) > 0 /\ ~LastStep.ok)
              => gen.at = "done" /\ ~gen.result.ok
        /\ (gen.at # "done") => gen.at = LocalOrder[Len(Steps) + 1]
        /\ (\E i \in 1..Len(Steps) :
               Steps[i].step \in {"ensure_available", "create_venv"}
               /\ ~Steps[i].ok)
              => \A i \in 1..Len(Steps) :
                    Steps[i].step \notin {"generate_requirements_file",
                                          "install_dependencies"}

\* C27: local_development_flow calls ensure_available, create_venv,
\* generate_requirements_file, install_dependencies and
\* create_activation_scripts in this order, each after the one before it
\* returned Ok; a failed call ends the flow with an error.  The manifest
\* changes in no step but generate_requirements_file, so it is not written
\* after a failed ensure_available or create_venv.
C27_LocalFlowInOrderAndAborts ==
    /\ []InLocalOrder
    /\ [][ (LocalFlow /\ disk' # disk)
              => /\ gen.at = "generate_requirements_file"
                 /\ Len(Steps) = 2
                 /\ Steps[1].ok /\ Steps[2].ok ]_vars

C27_Witness ==
    /\ LocalFlow
    /\ gen.at = "done"
    /\ Len(Steps) = 2
    /\ Steps[1].step = "ensure_available" /\ Steps[1].ok
    /\ Steps[2].step = "create_venv" /\ ~Steps[2].ok
    /\ ~gen.result.ok

(***************************************************************************)
(* SpecConc: invocations of the program that run ensure_available at the   *)
(* same time on one machine.  Each has a UvManager of its own (handle);    *)
(* all share the file <home>/.pywand/bin/<uv file name> (cache).  An       *)
(* invocation goes through the calls of extract_embedded_uv one by one;    *)
(* the operating system interleaves them.  The builds are those that embed *)
(* the tool, on a machine with a home directory.                           *)
(***************************************************************************)
\* a step is open to an invocation that creates the file only while no
\* other invocation is between its File::create and its return
at_step_exclusive(p, s) ==
    /\ pc[p] = s
    /\ s = "create_bin"
          => \A q \in Procs \ {p} : pc[q] \notin {"write_bin", "chmod_bin"}

\* an invocation is at step s: nothing but its own position is looked at
at_step(p, s) == pc[p] = s

\* <app dir>/bin/<uv file name> under the home directory
home_uv_path == Join(Join(HomeAppDir, "bin"), uv_file_name)

InitConc ==
    /\ bin_path = NoPath
    /\ \E b \in Builds :
          /\ os_type = b[1]
          /\ arch = b[2]
          /\ resources = b[3]
    /\ HasBlob
    /\ home = TRUE
    /\ cache \in { [d \in AppDirs |-> IF d = HomeAppDir THEN b ELSE "absent"]
                    : b \in {"absent", "old"} }
    /\ call = NoCall
    /\ tree = <<>>
    /\ python_files = <<>>
    /\ dependencies = <<>>
    /\ last = [op |-> "new"]
    /\ NormIdle
    /\ GenIdle
    /\ FlowIdle
    /\ ConcIdle
    /\ BootIdle

\* ensure_available up to the call of extract_embedded_uv: the system's uv
\* ends the call; the blob of the platform is there
ConcLookup(p) ==
    /\ at_step(p, "idle")
    /\ \E w \in WhichOutcomes :
        IF find_system_uv(w).ok
        THEN /\ pc' = [pc EXCEPT ![p] = "done"]
             /\ handle' = [handle EXCEPT ![p] = find_system_uv(w).val]
        ELSE /\ pc' = [pc EXCEPT ![p] = "mkdir"]
             /\ UNCHANGED handle
    /\ UNCHANGED <<provVars, scanVars, normVars, genVars, bootVars, flowVars>>

\* get_app_dir and create_dir_all of the bin directory
ConcMkdir(p) ==
    /\ at_step(p, "mkdir")
    /\ \E ok \in BOOLEAN :
          pc' = [pc EXCEPT ![p] = IF ok THEN "create_bin" ELSE "failed"]
    /\ UNCHANGED handle
    /\ UNCHANGED <<provVars, scanVars, normVars, genVars, bootVars, flowVars>>

\* File::create: the file is there and empty, whatever it held
ConcCreate(p) ==
    /\ at_step(p, "create_bin")
    /\ \E ok \in BOOLEAN :
        IF ok
        THEN /\ cache' = [cache EXCEPT ![HomeAppDir] = "empty"]
             /\ pc' = [pc EXCEPT ![p] = "write_bin"]
        ELSE /\ pc' = [pc EXCEPT ![p] = "failed"]
             /\ UNCHANGED cache
    /\ UNCHANGED handle
    /\ UNCHANGED <<bin_path, os_type, arch, resources, home, call>>
    /\ UNCHANGED <<scanVars, normVars, genVars, bootVars, flowVars>>

\* write_all: the file holds the blob; on Windows the call returns the path
ConcWrite(p) ==
    /\ at_step(p, "write_bin")
    /\ \E ok \in BOOLEAN :
        IF ok
        THEN /\ cache' = [cache EXCEPT ![HomeAppDir] = "blob"]
             /\ IF os_type = "windows"
                THEN /\ pc' = [pc EXCEPT ![p] = "done"]
                     /\ handle' = [handle EXCEPT ![p] = home_uv_path]
                ELSE /\ pc' = [pc EXCEPT ![p] = "chmod_bin"]
                     /\ UNCHANGED handle
        ELSE /\ pc' = [pc EXCEPT ![p] = "failed"]
             /\ UNCHANGED <<cache, handle>>
    /\ UNCHANGED <<bin_path, os_type, arch, resources, home, call>>
    /\ UNCHANGED <<scanVars, normVars, genVars, bootVars, flowVars>>

\* chmod +x, then the path is returned and kept as the handle
ConcChmod(p) ==
    /\ at_step(p, "chmod_bin")
    /\ \E ok \in BOOLEAN :
        IF ok
        THEN /\ pc' = [pc EXCEPT ![p] = "done"]
             /\ handle' = [handle EXCEPT ![p] = home_uv_path]
        ELSE /\ pc' = [pc EXCEPT ![p] = "failed"]
             /\ UNCHANGED handle
    /\ UNCHANGED <<provVars, scanVars, normVars, genVars, bootVars, flowVars>>

NextConc ==
    \E p \in Procs :
        \/ ConcLookup(p)
        \/ ConcMkdir(p)
        \/ ConcCreate(p)
        \/ ConcWrite(p)
        \/ ConcChmod(p)

SpecConc == InitConc /\ [][NextConc]_vars

(***************************************************************************)
(* Properties of concurrent invocations, checked under SpecConc.           *)
(***************************************************************************)
\* C24: the provisioner takes no lock on the cache: an invocation that is at
\* File::create or at write_all can always take that step, wherever the
\* others are.  An invocation that ran alone and returned the cached path
\* left the whole blob there; C24_Witness is the state invocations that run
\* together reach, where one holds the cached path as its handle and another
\* has truncated the file and not yet written it.
C24_NoLockOnTheCache ==
    /\ \A p \in Procs :
          /\ pc[p] = "create_bin" => ENABLED ConcCreate(p)
          /\ pc[p] = "write_bin" => ENABLED ConcWrite(p)
    /\ \A p \in Procs :
          ( /\ handle[p] = home_uv_path
            /\ \A q \in Procs \ {p} : pc[q] \in {"idle", "mkdir", "create_bin"} )
             => cache[HomeAppDir] = "blob"

C24_Witness ==
    \E p, q \in Procs :
        /\ pc[p] = "done"
        /\ handle[p] = home_uv_path
        /\ pc[q] = "write_bin"
        /\ cache[HomeAppDir] = "empty"

====
